---- MODULE Spec2Model ----
(***************************************************************************)
(* Model of the broker's deterministic market-data core:                   *)
(*   services/candle_db.py               the durable candle store (SQLite)  *)
(*   services/deterministic_generator.py the candle generator, bucketing    *)
(*   services/candle_auto_save.py        the auto-save scheduler            *)
(*                                                                         *)
(* Prices are fixed-point integers in units of 10^-PriceUnitDecimals.      *)
(* A table is a bag of rows: SQLite rows are distinct by their             *)
(* AUTOINCREMENT id, which no query returns, so two rows with the same     *)
(* column values are two copies of one bag element.  The UNIQUE constraint *)
(* is modelled where the INSERT statements are, not by the representation. *)
(***************************************************************************)
EXTENDS Integers, Sequences, FiniteSets, Bags, TLC

VARIABLES
    now,              \* wall clock, time.time() * 1000, in ms
    candles,          \* table candles: bag of rows
    partial_candles,  \* table partial_candles: bag of rows
    op,               \* the last API call: its name, arguments, result, store calls
    tracked_symbols,  \* CandleAutoSaver.tracked_symbols: configs in insertion order
    sched,            \* the scheduler thread's position inside check_and_save
    tick0,            \* history: tracked_symbols as the running tick found it
    tracked0,         \* history: the bucket index at which each entry was created
    last_partial,     \* history: the partial candle check_and_save last stored per key
    gens,             \* threads inside generate_deterministic_candle
    rngs,             \* the state of the RNG instances those threads hold
    prng,             \* one RNG instance at full width: xmur3's h, sfc32's state dict
    user,             \* the user dict open_trade and resolve_active_trades work on
    trade_seq,        \* how many trade ids uuid4 has issued
    resolvers,        \* the threads inside resolve_active_trades: position and locals
    faults,           \* how many store failures, restarts and clock steps back so far
    callers,          \* concurrent save_candle callers (own connection each)
    handlers,         \* request threads inside track_symbol
    query,            \* a request thread inside the OHLC endpoint: position and locals
    running,          \* CandleAutoSaver.running
    thread,           \* CandleAutoSaver.thread (0: None)
    threads,          \* the loop threads created by start()
    clients           \* threads calling start() / stop()

vars == <<user, trade_seq, resolvers, now, candles, partial_candles, op, tracked_symbols,
          sched, tick0, tracked0, last_partial, gens, rngs, prng, faults, callers, handlers,
          running, thread, threads, clients, query>>

storeVars == <<candles, partial_candles>>
schedVars == <<tracked_symbols, sched, tick0, tracked0, faults>>
histVars  == <<last_partial>>
userVars  == <<user, trade_seq, resolvers>>
genVars   == <<gens, rngs, prng>>
raceVars  == <<callers, handlers, query>>
loopVars  == <<running, thread, threads, clients>>

(***************************************************************************)
(* Bounds of the model                                                     *)
(***************************************************************************)
MaxBuckets == 2       \* the clock runs over this many 1-minute buckets
MaxFaults == 2        \* store failures, restarts and clock steps back per behaviour
MaxCallers == 3       \* concurrent save_candle callers
MaxThreads == 2       \* loop threads start() may create
MaxClients == 2       \* threads calling start()/stop()
MaxHandlers == 2      \* request threads calling track_symbol at the same time
MaxGenerators == 2    \* threads calling generate_deterministic_candle at the same time

MsPerMinute == 60 * 1000
ClockStep == MsPerMinute \div 2   \* granularity at which the model observes the clock

(***************************************************************************)
(* Series keys                                                             *)
(***************************************************************************)
MkKey(s, tf, v) == [symbol |-> s, timeframe_minutes |-> tf, version |-> v]
K1 == MkKey("BTC", 1, "v1")
K2 == MkKey("BTC", 2, "v1")
K3 == MkKey("BTC", 1, "v2")
K4 == MkKey("BTC", 1440, "v1")
\* two different keys whose formatted dict key is the same string, and a key that
\* differs from the first only in version
K5 == MkKey("BTC", 1, "1|v1")
K6 == MkKey("BTC|1", 1, "v1")
K7 == MkKey("BTC", 1, "1|v2")
NoKey == MkKey("", 0, "")
SeriesKeys == {K1, K2, K5, K6, K7}   \* the keys the scheduler is asked to track

SymbolId(s) == CASE s = "BTC" -> 1 [] OTHER -> 2
VersionId(v) == CASE v = "v1" -> 1 [] OTHER -> 2

(***************************************************************************)
(* TimeBucketing: get_candle_index, get_candle_start_time                  *)
(***************************************************************************)
\* mutant: the index of the nearest bucket start instead of the floor
get_candle_index_nearest(time_ms, timeframe_minutes) ==
    (time_ms + (timeframe_minutes * 60 * 1000) \div 2) \div (timeframe_minutes * 60 * 1000)

get_candle_index(time_ms, timeframe_minutes) ==
    time_ms \div (timeframe_minutes * 60 * 1000)

get_candle_start_time(index, timeframe_minutes) ==
    index * (timeframe_minutes * 60 * 1000)

(***************************************************************************)
(* SeededRNG (rng.py).  The 32-bit hash and generator are abstracted to a  *)
(* deterministic function of the seed with RngLevels outcomes per draw;    *)
(* Box-Muller is tabulated on those levels (magnitude and cosine in        *)
(* tenths).  What the model keeps: a draw depends only on the seed string  *)
(* and the draw's number, and a draw of exactly 0 is replaced by 1e-12.    *)
(***************************************************************************)
RngLevels == 8

\* f"{seed_base}|candle|{index}" plus "", "|intraday" or "|volume"
SeedString(seed_base, index, stream) ==
    <<seed_base.symbol, seed_base.timeframe_minutes, seed_base.version, index, stream>>

\* xmur3: the string hash that seeds the generator
xmur3(seed) ==
    LET s == SymbolId(seed[1])
        v == VersionId(seed[3])
        st == CASE seed[5] = "" -> 0 [] seed[5] = "|intraday" -> 1 [] OTHER -> 2
        i == IF seed[4] < 0 THEN 1000 - seed[4] ELSE seed[4]
    IN  (((s * 31 + seed[2]) * 31 + v) * 31 + i) * 31 + st

\* the n-th draw (n = 0, 1, ...) of create_seeded_rng(seed): a level u, for u / RngLevels
rng_draw(seed, n) ==
    LET h == xmur3(seed)
    IN  (h * 5 + (h \div 7) + n * 3 + (h % 3) * n) % RngLevels

\* sqrt(-2 * ln(u1)) in tenths, u1 = level / RngLevels, or 1e-12 for level 0
BoxMullerMagnitude(level) ==
    CASE level = 0 -> 74 [] level = 1 -> 20 [] level = 2 -> 17 [] level = 3 -> 14
      [] level = 4 -> 12 [] level = 5 -> 10 [] level = 6 -> 8 [] OTHER -> 5

\* cos(2 * pi * u2) in tenths, u2 = level / RngLevels, or 1e-12 for level 0
BoxMullerCosine(level) ==
    CASE level = 0 -> 10 [] level = 1 -> 7 [] level = 2 -> 0 [] level = 3 -> -7
      [] level = 4 -> -10 [] level = 5 -> -7 [] level = 6 -> 0 [] OTHER -> 7

\* n / d rounded to the nearest integer, ties to even (d > 0)
RoundHalfEven(n, d) ==
    LET q == n \div d
        r == n % d
    IN  IF 2 * r < d THEN q
        ELSE IF 2 * r > d THEN q + 1
        ELSE IF q % 2 = 0 THEN q ELSE q + 1

\* Box-Muller, in tenths, of the two draws u1 and u2 (levels)
BoxMuller(u1, u2) ==
    RoundHalfEven(BoxMullerMagnitude(u1) * BoxMullerCosine(u2), 10)

\* gaussian(rng), in tenths, for the generator's draws first and first + 1
gaussian(seed, first) ==
    BoxMuller(rng_draw(seed, first), rng_draw(seed, first + 1))

(***************************************************************************)
(* rng.py at full width.  A Python int in [0, 2^32) is a pair <<hi, lo>>   *)
(* of 16-bit halves, hi * 65536 + lo; a pair whose hi is above 65535 is an *)
(* int of 2^32 or more.  Every operator below is one expression of the     *)
(* source with its "& 0xFFFFFFFF".                                          *)
(***************************************************************************)
Half == 65536

RECURSIVE BitXor(_, _)
BitXor(x, y) ==
    IF x = 0 THEN y ELSE IF y = 0 THEN x
    ELSE 2 * BitXor(x \div 2, y \div 2) + ((x + y) % 2)

RECURSIVE BitOr(_, _)
BitOr(x, y) ==
    IF x = 0 THEN y ELSE IF y = 0 THEN x
    ELSE 2 * BitOr(x \div 2, y \div 2) + (IF x % 2 = 1 \/ y % 2 = 1 THEN 1 ELSE 0)

RECURSIVE Pow2(_)
Pow2(k) == IF k = 0 THEN 1 ELSE 2 * Pow2(k - 1)

\* x ^ y
Xor32(x, y) == <<BitXor(x[1], y[1]), BitXor(x[2], y[2])>>
\* x | y
Or32(x, y) == <<BitOr(x[1], y[1]), BitOr(x[2], y[2])>>
\* x >> k
Shr32(x, k) ==
    IF k >= 16 THEN <<0, x[1] \div Pow2(k - 16)>>
    ELSE <<x[1] \div Pow2(k), (x[1] % Pow2(k)) * Pow2(16 - k) + x[2] \div Pow2(k)>>
\* (x << k) & 0xFFFFFFFF
ShlMask32(x, k) ==
    IF k >= 16 THEN <<(x[2] * Pow2(k - 16)) % Half, 0>>
    ELSE <<((x[1] % Pow2(16 - k)) * Pow2(k) + x[2] \div Pow2(16 - k)) % Half,
           ((x[2] % Pow2(16 - k)) * Pow2(k)) % Half>>
\* (x + y) & 0xFFFFFFFF
AddMask32(x, y) ==
    <<(x[1] + y[1] + (x[2] + y[2]) \div Half) % Half, (x[2] + y[2]) % Half>>
\* the product of two 16-bit numbers, as <<hi, lo>>
Mul16(x, y) ==
    LET p == (x % 256) * y
        q == (x \div 256) * y
        low == p + (q % 256) * 256
    IN  <<low \div Half + q \div 256, low % Half>>
\* (x * y) & 0xFFFFFFFF
MulMask32(x, y) ==
    LET ll == Mul16(x[2], y[2])
    IN  <<(ll[1] + Mul16(x[2], y[1])[2] + Mul16(x[1], y[2])[2]) % Half, ll[2]>>

\* xmur3: h = 1779033703, and one round of "for char in string"
xmur3_init == <<27145, 58983>>
xmur3_char(h, char) ==
    LET h1 == Xor32(h, <<char \div Half, char % Half>>)
        h2 == MulMask32(h1, <<52382, 11601>>)             \* 3432918353
    IN  Or32(ShlMask32(h2, 13), Shr32(h2, 19))

\* seed_fn(): the new h, which is also what it returns
seed_fn(h) ==
    LET h1 == Xor32(h, Shr32(h, 16))
        h2 == MulMask32(h1, <<34283, 51819>>)             \* 2246822507
        h3 == Xor32(h2, Shr32(h2, 13))
        h4 == MulMask32(h3, <<49842, 44597>>)             \* 3266489909
    IN  Xor32(h4, Shr32(h4, 16))

\* mutant: rng() with "d = d + 1", the counter not masked
sfc32_rng_unmasked_counter(state) ==
    LET t1 == AddMask32(state.a, state.b)
        a == Xor32(state.b, Shr32(state.b, 9))
        b == AddMask32(state.c, ShlMask32(state.c, 3))
        c1 == Or32(ShlMask32(state.c, 21), Shr32(state.c, 11))
        d == <<state.d[1] + (state.d[2] + 1) \div Half, (state.d[2] + 1) % Half>>
        t == AddMask32(t1, d)
        c == AddMask32(c1, t)
    IN  [a |-> a, b |-> b, c |-> c, d |-> d, t |-> t]

\* rng(): the state dict after the call, and t of "return t / 4294967296.0"
sfc32_rng(state) ==
    LET t1 == AddMask32(state.a, state.b)
        a == Xor32(state.b, Shr32(state.b, 9))
        b == AddMask32(state.c, ShlMask32(state.c, 3))
        c1 == Or32(ShlMask32(state.c, 21), Shr32(state.c, 11))
        d == AddMask32(state.d, <<0, 1>>)
        t == AddMask32(t1, d)
        c == AddMask32(c1, t)
    IN  [a |-> a, b |-> b, c |-> c, d |-> d, t |-> t]

\* no instance yet
NoPrng ==
    [pc |-> "none", seed |-> <<>>, h |-> <<0, 0>>, words |-> <<>>,
     state |-> [a |-> <<0, 0>>, b |-> <<0, 0>>, c |-> <<0, 0>>, d |-> <<0, 0>>,
                t |-> <<0, 0>>],
     d0 |-> <<0, 0>>, n |-> 0]

Abs(x) == IF x < 0 THEN 0 - x ELSE x
Max(a, b) == IF a >= b THEN a ELSE b
Min(a, b) == IF a <= b THEN a ELSE b

RECURSIVE GCD(_, _)
GCD(a, b) == IF b = 0 THEN a ELSE GCD(b, a % b)

(***************************************************************************)
(* CandleGenerator (deterministic_generator.py).                           *)
(* A price is an integer number of price units (10^-3); float arithmetic   *)
(* is carried in tenths of a unit (ToFine) and round_price rounds half-even *)
(* to price_decimals decimals.  volatility is in 1/1000 (20 is 0.02).      *)
(***************************************************************************)
ToFine(price) == price * 10

\* price units per 10^-price_decimals
Grid(price_decimals) ==
    CASE price_decimals >= 3 -> 1 [] price_decimals = 2 -> 10
      [] price_decimals = 1 -> 100 [] OTHER -> 1000

\* round(num, price_decimals) of a value given in tenths of a price unit
round_price(num_fine, price_decimals) ==
    RoundHalfEven(num_fine, ToFine(Grid(price_decimals))) * Grid(price_decimals)

\* math.sqrt(timeframe_minutes), in tenths
RECURSIVE ISqrt(_, _)
ISqrt(n, r) == IF (r + 1) * (r + 1) > n THEN r ELSE ISqrt(n, r + 1)
SqrtTenths(timeframe_minutes) ==
    CASE timeframe_minutes = 1 -> 10 [] timeframe_minutes = 2 -> 14
      [] timeframe_minutes = 1440 -> 379
      [] OTHER -> ISqrt(timeframe_minutes * 100, 0)

MkCandle(start, o, h, l, c, v, partial) ==
    [start_time_ms |-> start, open |-> o, high |-> h, low |-> l, close |-> c,
     volume |-> v, is_partial |-> partial]

NoCandle == MkCandle(-1, 0, 0, 0, 0, 0, FALSE)
\* no partial candle stored yet for a key
NoPartial == [candle |-> NoCandle, elapsed |-> 0, timeframe_ms |-> 0, last_saved_index |-> -1]

\* Candle.to_dict: the key isPartial is present only on a partial candle
to_dict(c) ==
    IF c.is_partial
    THEN [start_time_ms |-> c.start_time_ms, open |-> c.open, high |-> c.high,
          low |-> c.low, close |-> c.close, volume |-> c.volume, isPartial |-> TRUE]
    ELSE [start_time_ms |-> c.start_time_ms, open |-> c.open, high |-> c.high,
          low |-> c.low, close |-> c.close, volume |-> c.volume]

\* an RNG instance: the closure state of sfc32, abstracted to its seed string and the
\* number of draws made; NoRng is a cell no instance lives in
NoRng == [seed |-> <<>>, n |-> 0]

\* mutant: the generator state lives in one module-level cell (0) shared by all callers
create_seeded_rng_global(heap, owner, seed_string) ==
    [heap |-> [heap EXCEPT ![0] = [seed |-> seed_string, n |-> 0]], rng |-> 0]

\* create_seeded_rng: a new instance, referenced only by the caller's local variable
\* (the cell of the calling thread)
create_seeded_rng(heap, owner, seed_string) ==
    [heap |-> [heap EXCEPT ![owner] = [seed |-> seed_string, n |-> 0]], rng |-> owner]

\* rng(): the next draw of the instance, which advances
rng_call(heap, rng) ==
    [heap |-> [heap EXCEPT ![rng].n = heap[rng].n + 1],
     u |-> rng_draw(heap[rng].seed, heap[rng].n)]

\* a thread that is not inside generate_deterministic_candle
GenIdle ==
    [pc |-> "idle", seed_base |-> NoKey, index |-> 0, prev_close |-> 0, stream |-> 0,
     rng |-> 0, draws |-> <<>>]

\* the candle computed from the seven draws of a call: two of close_rng, four of
\* intraday_rng, one of volume_rng
CandleOfDraws(draws, prev_close, volatility, timeframe_minutes, price_decimals, start_time_ms) ==
    LET z == BoxMuller(draws[1], draws[2])
        open_price == ToFine(prev_close)
        \* close = prev_close * (1 + z * volatility * sqrt(timeframe_minutes))
        close == open_price
                 + RoundHalfEven(prev_close * z * volatility * SqrtTenths(timeframe_minutes),
                                 10000)
        hi == Max(open_price, close)
        lo == Min(open_price, close)
        high == hi + RoundHalfEven(hi * Abs(BoxMuller(draws[3], draws[4])) * volatility * 3,
                                   100000)
        low == lo - RoundHalfEven(lo * Abs(BoxMuller(draws[5], draws[6])) * volatility * 3,
                                  100000)
        volume == (100 * (2 * RngLevels + draws[7])) \div (2 * RngLevels)
    IN  MkCandle(start_time_ms,
                 round_price(open_price, price_decimals),
                 round_price(high, price_decimals),
                 round_price(low, price_decimals),
                 round_price(close, price_decimals),
                 volume, FALSE)

\* mutant: the seed string of the volume draw includes the volatility
generate_deterministic_candle_volume_seed(seed_base, index, prev_close, volatility, timeframe_minutes, price_decimals, start_time_ms) ==
    LET close_seed == SeedString(seed_base, index, "")
        intraday_seed == SeedString(seed_base, index, "|intraday")
        volume_seed == SeedString(seed_base, index * 100 + volatility, "|volume")
    IN  CandleOfDraws(<<rng_draw(close_seed, 0), rng_draw(close_seed, 1),
                        rng_draw(intraday_seed, 0), rng_draw(intraday_seed, 1),
                        rng_draw(intraday_seed, 2), rng_draw(intraday_seed, 3),
                        rng_draw(volume_seed, 0)>>,
                      prev_close, volatility, timeframe_minutes, price_decimals,
                      start_time_ms)

generate_deterministic_candle(seed_base, index, prev_close, volatility, timeframe_minutes, price_decimals, start_time_ms) ==
    LET close_seed == SeedString(seed_base, index, "")
        intraday_seed == SeedString(seed_base, index, "|intraday")
        volume_seed == SeedString(seed_base, index, "|volume")
    IN  CandleOfDraws(<<rng_draw(close_seed, 0), rng_draw(close_seed, 1),
                        rng_draw(intraday_seed, 0), rng_draw(intraday_seed, 1),
                        rng_draw(intraday_seed, 2), rng_draw(intraday_seed, 3),
                        rng_draw(volume_seed, 0)>>,
                      prev_close, volatility, timeframe_minutes, price_decimals,
                      start_time_ms)

\* mutant: the elapsed time is not capped at the timeframe (f may exceed 1)
ElapsedUncapped(elapsed, timeframe_ms) == Max(0, elapsed)

\* timeframe_ms * min(1.0, max(0.0, elapsed / timeframe_ms))
ElapsedClamped(elapsed, timeframe_ms) == Min(timeframe_ms, Max(0, elapsed))

generate_partial_candle(seed_base, index, prev_close, candle_start_ms, server_time_ms, timeframe_ms, volatility, timeframe_minutes, price_decimals) ==
    LET target_candle == generate_deterministic_candle(seed_base, index, prev_close,
                             volatility, timeframe_minutes, price_decimals, candle_start_ms)
        elapsed == server_time_ms - candle_start_ms
        \* f = min(1.0, max(0.0, elapsed / timeframe_ms)) = fn / fd
        e == ElapsedClamped(elapsed, timeframe_ms)
        g == GCD(timeframe_ms, e)
        fn == e \div g
        fd == timeframe_ms \div g
        open_price == ToFine(prev_close)
        cur_close == open_price
                     + RoundHalfEven((ToFine(target_candle.close) - open_price) * fn, fd)
        iseed == SeedString(seed_base, index, "|intraday")
        hi == Max(open_price, cur_close)
        lo == Min(open_price, cur_close)
        cur_high == hi + RoundHalfEven(hi * Abs(gaussian(iseed, 0)) * volatility * 3 * fn,
                                       100000 * fd)
        cur_low == lo - RoundHalfEven(lo * Abs(gaussian(iseed, 2)) * volatility * 3 * fn,
                                      100000 * fd)
    IN  MkCandle(candle_start_ms,
                 round_price(open_price, price_decimals),
                 round_price(cur_high, price_decimals),
                 round_price(cur_low, price_decimals),
                 round_price(cur_close, price_decimals),
                 (target_candle.volume * fn) \div fd, TRUE)

(***************************************************************************)
(* CandleStore (candle_db.py).  Both tables have the columns               *)
(* symbol, timeframe_minutes, version, start_time_ms, open, high, low,     *)
(* close and UNIQUE(symbol, timeframe_minutes, version, start_time_ms).    *)
(* An operation returns [db |-> the table afterwards, result |-> ...].     *)
(***************************************************************************)
MkRow(k, candle) ==
    [symbol |-> k.symbol, timeframe_minutes |-> k.timeframe_minutes,
     version |-> k.version, start_time_ms |-> candle.start_time_ms,
     open |-> candle.open, high |-> candle.high, low |-> candle.low,
     close |-> candle.close]

KeyOf(row) == MkKey(row.symbol, row.timeframe_minutes, row.version)

\* WHERE symbol = ? AND timeframe_minutes = ? AND version = ?
RowsOfKey(table, k) == {r \in BagToSet(table) : KeyOf(r) = k}

\* ... AND start_time_ms = ?
RowsAt(table, k, start_time_ms) ==
    {r \in RowsOfKey(table, k) : r.start_time_ms = start_time_ms}

\* how many rows of the table are among the row values S
RECURSIVE CountRows(_, _)
CountRows(table, S) ==
    IF S = {} THEN 0
    ELSE LET r == CHOOSE x \in S : TRUE
         IN  CopiesIn(r, table) + CountRows(table, S \ {r})

\* how many rows the table holds for (key, start_time_ms)
CountAt(table, k, start_time_ms) == CountRows(table, RowsAt(table, k, start_time_ms))

\* SELECT start_time_ms, open, high, low, close: the dict(row) of a fetched row
RowDict(r) ==
    [start_time_ms |-> r.start_time_ms, open |-> r.open, high |-> r.high,
     low |-> r.low, close |-> r.close]

\* the table without the rows in S (DELETE)
DeleteRows(table, S) ==
    [r \in (BagToSet(table) \ S) |-> table[r]]

\* mutant: the table declared without its UNIQUE constraint
NoUniqueConstraint(table, row) == FALSE

\* the UNIQUE(symbol, timeframe_minutes, version, start_time_ms) constraint on INSERT
UniqueViolation(table, row) ==
    RowsAt(table, KeyOf(row), row.start_time_ms) # {}

\* INSERT INTO candles ...: raises sqlite3.IntegrityError on a duplicate tuple
InsertRow(table, row) ==
    IF UniqueViolation(table, row)
    THEN [db |-> table, result |-> "IntegrityError"]
    ELSE [db |-> table (+) SetToBag({row}), result |-> "ok"]

\* save_candle's SELECT id FROM candles WHERE ... start_time_ms = ?
SelectExisting(table, k, start_time_ms) == RowsAt(table, k, start_time_ms) # {}

\* save_candle's INSERT with its except sqlite3.IntegrityError: return False
InsertCandle(table, k, candle) ==
    LET ins == InsertRow(table, MkRow(k, candle))
    IN  [db |-> ins.db, result |-> (ins.result = "ok")]

\* mutant: INSERT OR REPLACE instead of check-then-insert
save_candle_or_replace(table, k, candle) ==
    [db |-> DeleteRows(table, RowsAt(table, k, candle.start_time_ms))
            (+) SetToBag({MkRow(k, candle)}),
     result |-> TRUE]

\* mutant: the INSERT is never committed
save_candle_uncommitted(table, k, candle) ==
    [db |-> table, result |-> ~SelectExisting(table, k, candle.start_time_ms)]

\* save_candle run alone: the existence check, then the insert
save_candle(table, k, candle) ==
    IF SelectExisting(table, k, candle.start_time_ms)
    THEN [db |-> table, result |-> FALSE]
    ELSE InsertCandle(table, k, candle)

\* rows ordered by start_time_ms DESC, at most limit of them (LIMIT ?; negative: no limit)
RECURSIVE OrderDescLimit(_, _)
OrderDescLimit(S, limit) ==
    IF S = {} \/ limit = 0 THEN <<>>
    ELSE LET r == CHOOSE x \in S : \A y \in S : y.start_time_ms <= x.start_time_ms
         IN  <<r>> \o OrderDescLimit(S \ {r}, limit - 1)

Reverse(seq) == [i \in 1..Len(seq) |-> seq[Len(seq) + 1 - i]]

\* get_candles; end_time_ms = None is modelled as NoneTime
NoneTime == 0 - 1
get_candles(table, k, count, end_time_ms) ==
    LET rows == IF end_time_ms # NoneTime /\ end_time_ms # 0     \* if end_time_ms:
                THEN {r \in RowsOfKey(table, k) : r.start_time_ms <= end_time_ms}
                ELSE RowsOfKey(table, k)
        desc == OrderDescLimit(rows, count)
    IN  Reverse([i \in 1..Len(desc) |-> RowDict(desc[i])])

\* get_latest_candle and get_partial_candle: <<>> stands for None
NoneRow == <<>>
SelectLatest(table, k) ==
    LET desc == OrderDescLimit(RowsOfKey(table, k), 1)
    IN  IF desc = <<>> THEN NoneRow ELSE RowDict(desc[1])

get_latest_candle(table, k) == SelectLatest(table, k)

get_partial_candle(table, k) == SelectLatest(table, k)

\* mutant: the DELETE without its WHERE clause
delete_candles_every_key(table, k) ==
    [db |-> EmptyBag, result |-> BagCardinality(table)]

\* delete_candles: DELETE FROM candles WHERE key; returns cursor.rowcount
delete_candles(table, k) ==
    LET S == RowsOfKey(table, k)
    IN  [db |-> DeleteRows(table, S), result |-> CountRows(table, S)]

\* mutant: a plain INSERT, without the ON CONFLICT ... DO UPDATE clause
save_partial_candle_insert_only(table, k, candle) ==
    [db |-> table (+) SetToBag({MkRow(k, candle)}), result |-> TRUE]

\* save_partial_candle: INSERT ... ON CONFLICT(...) DO UPDATE SET open, high, low, close
save_partial_candle(table, k, candle) ==
    LET old == RowsAt(table, k, candle.start_time_ms)
        row == MkRow(k, candle)
    IN  IF old = {}
        THEN [db |-> table (+) SetToBag({row}), result |-> TRUE]
        ELSE [db |-> DeleteRows(table, old) (+) SetToBag({row}), result |-> TRUE]

\* mutant: the DELETE without "AND version = ?"
delete_partial_candle_every_version(table, k, start_time_ms) ==
    LET S == {r \in BagToSet(table) : /\ r.symbol = k.symbol
                                      /\ r.timeframe_minutes = k.timeframe_minutes
                                      /\ r.start_time_ms = start_time_ms}
    IN  [db |-> DeleteRows(table, S), result |-> (S # {})]

\* delete_partial_candle: DELETE ... WHERE key AND start_time_ms = ?; rowcount > 0
delete_partial_candle(table, k, start_time_ms) ==
    LET S == RowsAt(table, k, start_time_ms)
    IN  [db |-> DeleteRows(table, S), result |-> (S # {})]

(***************************************************************************)
(* The last API call, for the claims that speak of calls and results       *)
(***************************************************************************)
MkOp(name, k, arg, result, calls) ==
    [name |-> name, key |-> k, arg |-> arg, result |-> result, calls |-> calls]

\* the argument and result recorded for a step that is not an API call
NoArg == [initial_price |-> 0, volatility |-> 0, price_decimals |-> 0]
NoOp == MkOp("init", NoKey, NoArg, FALSE, {})

(***************************************************************************)
(* SpecStore: the store's operations called one at a time, by any caller   *)
(***************************************************************************)
StoreKeys == {K1, K3}
PartialKeys == {K1, K3}
StoreTuples == StoreKeys \X {get_candle_start_time(i, 1) : i \in 0..1}
StoreStarts == {get_candle_start_time(i, 1) : i \in 0..1}
\* payloads a caller may pass: two different candles per start time
Payload(start, variant) ==
    IF variant = 1
    THEN MkCandle(start, 1000, 1010, 990, 1005, 100, FALSE)
    ELSE MkCandle(start, 2000, 2020, 1980, 1990, 120, FALSE)
\* K1 is written with both payloads at every start, K3 with the first payload
SaveInputs ==
    {<<K1, Payload(st, v)>> : st \in StoreStarts, v \in 1..2}
        \cup {<<K3, Payload(st, 1)>> : st \in StoreStarts}
PartialInputs ==
    ({<<K1, [Payload(st, v) EXCEPT !.is_partial = TRUE]>> :
        st \in StoreStarts, v \in 1..2} \ {<<K1, [Payload(MsPerMinute, 2) EXCEPT !.is_partial = TRUE]>>})
        \cup {<<K3, [Payload(0, 1) EXCEPT !.is_partial = TRUE]>>}
Counts == 0..2
EndTimes == {NoneTime} \cup StoreStarts

\* the scheduler thread between two ticks, before its first tick
SchedIdle ==
    [pc |-> "sleep", server_time_ms |-> 0, n |-> 0, pos |-> 0, current_index |-> 0,
     completed_index |-> 0, saved |-> <<>>, failed |-> {}]
\* saved: history, the <<index, close>> of the candles passed to save_candle for the
\* key being processed; failed: history, the <<position, store call>> that failed

\* a thread that is not inside start() or stop()
ClientIdle == [pc |-> "idle", joined |-> 0]

\* a request thread that is not inside track_symbol
HandlerIdle ==
    [pc |-> "idle", key |-> NoKey, current_index |-> 0, prev_close |-> 0,
     params |-> [initial_price |-> 0, volatility |-> 0, price_decimals |-> 0]]

(***************************************************************************)
(* Floats of the trading helpers: a number in thousandths, or NaN.         *)
(***************************************************************************)
Num(mills) == [nan |-> FALSE, mills |-> mills]
NaN == [nan |-> TRUE, mills |-> 0]

\* round(x, 2): to the nearest hundredth (the inputs hold no ties); round(nan, 2) is nan
round2(x) == IF x.nan THEN NaN ELSE Num(RoundHalfEven(x.mills, 10) * 10)
\* x <= 0, x > y, x - y, -x as IEEE defines them: a comparison with NaN is false
float_le_zero(x) == ~x.nan /\ x.mills <= 0
float_gt(x, y) == ~x.nan /\ ~y.nan /\ x.mills > y.mills
float_sub(x, y) == IF x.nan \/ y.nan THEN NaN ELSE Num(x.mills - y.mills)
float_neg(x) == IF x.nan THEN NaN ELSE Num(0 - x.mills)

\* no request is inside the OHLC endpoint
QueryIdle == [pc |-> "idle", key |-> NoKey, count |-> 0, include_partial |-> FALSE,
              initial_price |-> 0, server_time_ms |-> 0, candles_data |-> <<>>,
              fromDatabase |-> FALSE, prev_close |-> 0]

\* a user with a balance of 100.00 and no trades yet
NewUser == [balance |-> Num(100000), active_trades |-> <<>>, history |-> <<>>,
            transactions |-> <<>>]
\* the threads that call resolve_active_trades: the TradeResolver thread and a
\* request thread (_ensure_session_user)
ResolverThreads == {"resolver", "handler"}
ResolverIdle == [pc |-> "idle", active_trades |-> <<>>, remaining |-> <<>>,
                 resolved |-> <<>>, current_time |-> 0, i |-> 0]

InitShared ==
    /\ user = NewUser
    /\ trade_seq = 0
    /\ resolvers = [t \in ResolverThreads |-> ResolverIdle]
    /\ now = 0
    /\ candles = EmptyBag
    /\ partial_candles = EmptyBag
    /\ op = NoOp
    /\ tracked_symbols = <<>>
    /\ sched = SchedIdle
    /\ tick0 = <<>>
    /\ tracked0 = <<>>
    /\ last_partial = [k \in SeriesKeys |-> NoPartial]
    /\ gens = [g \in 1..MaxGenerators |-> GenIdle]
    /\ rngs = [h \in 0..MaxGenerators |-> NoRng]
    /\ prng = NoPrng
    /\ faults = 0
    /\ callers = [c \in 1..MaxCallers |-> [pc |-> "idle", key |-> NoKey,
                                           candle |-> NoCandle, existing |-> FALSE,
                                           result |-> FALSE]]
    /\ handlers = [h \in 1..MaxHandlers |-> HandlerIdle]
    /\ query = QueryIdle
    /\ running = FALSE
    /\ thread = 0
    /\ threads = [t \in 1..MaxThreads |-> "unborn"]
    /\ clients = [c \in 1..MaxClients |-> ClientIdle]

SaveCandle(k, c) ==
    LET r == save_candle(candles, k, to_dict(c))
    IN  /\ candles' = r.db
        /\ op' = MkOp("save_candle", k, to_dict(c), r.result, {"save_candle"})
        /\ UNCHANGED <<histVars, userVars, genVars, now, partial_candles, schedVars, raceVars, loopVars>>

GetCandles(k, count, end_time_ms) ==
    /\ op' = MkOp("get_candles", k, <<count, end_time_ms>>,
                  get_candles(candles, k, count, end_time_ms), {"get_candles"})
    /\ UNCHANGED <<histVars, userVars, genVars, now, storeVars, schedVars, raceVars, loopVars>>

GetLatestCandle(k) ==
    /\ op' = MkOp("get_latest_candle", k, 0, get_latest_candle(candles, k),
                  {"get_latest_candle"})
    /\ UNCHANGED <<histVars, userVars, genVars, now, storeVars, schedVars, raceVars, loopVars>>

DeleteCandles(k) ==
    LET r == delete_candles(candles, k)
    IN  /\ candles' = r.db
        /\ op' = MkOp("delete_candles", k, 0, r.result, {"delete_candles"})
        /\ UNCHANGED <<histVars, userVars, genVars, now, partial_candles, schedVars, raceVars, loopVars>>

SavePartialCandle(k, c) ==
    LET r == save_partial_candle(partial_candles, k, to_dict(c))
    IN  /\ partial_candles' = r.db
        /\ op' = MkOp("save_partial_candle", k, to_dict(c), r.result,
                      {"save_partial_candle"})
        /\ UNCHANGED <<histVars, userVars, genVars, now, candles, schedVars, raceVars, loopVars>>

GetPartialCandle(k) ==
    /\ op' = MkOp("get_partial_candle", k, 0, get_partial_candle(partial_candles, k),
                  {"get_partial_candle"})
    /\ UNCHANGED <<histVars, userVars, genVars, now, storeVars, schedVars, raceVars, loopVars>>

DeletePartialCandle(k, start_time_ms) ==
    LET r == delete_partial_candle(partial_candles, k, start_time_ms)
    IN  /\ partial_candles' = r.db
        /\ op' = MkOp("delete_partial_candle", k, start_time_ms, r.result,
                      {"delete_partial_candle"})
        /\ UNCHANGED <<histVars, userVars, genVars, now, candles, schedVars, raceVars, loopVars>>

NextStore ==
    \/ \E in \in SaveInputs : SaveCandle(in[1], in[2])
    \/ \E k \in StoreKeys, n \in Counts, e \in EndTimes : GetCandles(k, n, e)
    \/ \E k \in StoreKeys : GetLatestCandle(k)
    \/ \E k \in StoreKeys : DeleteCandles(k)
    \/ \E in \in PartialInputs : SavePartialCandle(in[1], in[2])
    \/ \E k \in PartialKeys : GetPartialCandle(k)
    \/ \E k \in PartialKeys, st \in StoreStarts : DeletePartialCandle(k, st)

SpecStore == InitShared /\ [][NextStore]_vars

(***************************************************************************)
(* C1: save_candle called twice for the same (key, start_time_ms) returns  *)
(* True and then False, and the stored row keeps the first call's open,    *)
(* high, low and close although the second payload differs; a call returns *)
(* True exactly when no row for the tuple existed.                         *)
(***************************************************************************)
SameTuple(o1, o2) ==
    o1.key = o2.key /\ o1.arg.start_time_ms = o2.arg.start_time_ms

C3_RowsNeverChangedOrRemoved ==
    [][\A r \in BagToSet(candles) : BagIn(r, candles') /\ CopiesIn(r, candles') = 1]_vars

(***************************************************************************)
(* C3 amended: a tuple never has two rows, and a persisted row is changed  *)
(* by no operation and removed only by delete_candles of its own key,      *)
(* which removes every row of that key and no row of another key.          *)
(***************************************************************************)
C3_RowsRemovedOnlyByDeleteCandles ==
    [][/\ \A t \in StoreTuples : CountAt(candles', t[1], t[2]) <= 1
       /\ \A r \in BagToSet(candles) :
            IF op'.name = "delete_candles" /\ op'.key = KeyOf(r)
            THEN ~BagIn(r, candles')
            ELSE BagIn(r, candles') /\ CopiesIn(r, candles') = 1
      ]_vars

\* delete_candles removed the rows of one key while another key's rows stay
C3_Witness ==
    /\ op.name = "delete_candles"
    /\ op.result = 2
    /\ RowsOfKey(candles, op.key) = {}
    /\ candles # EmptyBag

(***************************************************************************)
(* SpecSaveRace: save_candle run by several callers at once, each on its   *)
(* own connection.  The SELECT runs in autocommit; the INSERT and its      *)
(* commit hold SQLite's write lock, so each is one step.                   *)
(***************************************************************************)
RaceTuples == {K1} \X StoreStarts

\* a caller enters save_candle(key, candle) and connects
CallSaveCandle(c, k, candle) ==
    /\ callers[c].pc = "idle"
    /\ callers' = [callers EXCEPT ![c] = [pc |-> "select", key |-> k, candle |-> candle,
                                         existing |-> FALSE, result |-> FALSE]]
    /\ UNCHANGED <<histVars, userVars, genVars, now, storeVars, op, schedVars, handlers, loopVars, query>>

\* existing = cursor.fetchone(); if existing: return False
CallerSelect(c) ==
    /\ callers[c].pc = "select"
    /\ LET found == SelectExisting(candles, callers[c].key, callers[c].candle.start_time_ms)
       IN  callers' = [callers EXCEPT ![c].existing = found,
                                      ![c].pc = IF found THEN "done" ELSE "insert"]
    /\ UNCHANGED <<histVars, userVars, genVars, now, storeVars, op, schedVars, handlers, loopVars, query>>

\* the INSERT, conn.commit() and return True, or IntegrityError and return False
CallerInsert(c) ==
    /\ callers[c].pc = "insert"
    /\ LET r == InsertCandle(candles, callers[c].key, to_dict(callers[c].candle))
       IN  /\ candles' = r.db
           /\ callers' = [callers EXCEPT ![c].result = r.result, ![c].pc = "done"]
    /\ UNCHANGED <<histVars, userVars, genVars, now, partial_candles, op, schedVars, handlers, loopVars, query>>

NextSaveRace ==
    \/ \E c \in 1..MaxCallers, t \in RaceTuples, v \in 1..2 :
          CallSaveCandle(c, t[1], Payload(t[2], v))
    \/ \E c \in 1..MaxCallers : CallerSelect(c)
    \/ \E c \in 1..MaxCallers : CallerInsert(c)

SpecSaveRace == InitShared /\ [][NextSaveRace]_vars

(***************************************************************************)
(* C2: of the concurrent save_candle calls for one (key, start_time_ms),   *)
(* in every interleaving of their existence checks and inserts at most one *)
(* returns True, the table never holds two rows for the tuple, and when    *)
(* all of them have returned it holds exactly one and one call returned    *)
(* True.                                                                   *)
(***************************************************************************)
CallersOf(t) ==
    {c \in 1..MaxCallers : /\ callers[c].pc # "idle"
                           /\ callers[c].key = t[1]
                           /\ callers[c].candle.start_time_ms = t[2]}

Winners(t) == {c \in CallersOf(t) : callers[c].pc = "done" /\ callers[c].result}

C2_AtMostOneConcurrentInsert ==
    \A t \in RaceTuples :
        /\ Cardinality(Winners(t)) <= 1
        /\ CountAt(candles, t[1], t[2]) <= 1
        /\ (CallersOf(t) # {} /\ \A c \in CallersOf(t) : callers[c].pc = "done") =>
              /\ CountAt(candles, t[1], t[2]) = 1
              /\ Cardinality(Winners(t)) = 1

\* two callers both saw no row; one inserted, the other's INSERT was refused
C2_Witness ==
    \E t \in RaceTuples : \E c1, c2 \in CallersOf(t) :
        /\ callers[c1].pc = "done" /\ callers[c1].result
        /\ callers[c2].pc = "done" /\ ~callers[c2].result /\ ~callers[c2].existing
        /\ callers[c1].candle # callers[c2].candle

(***************************************************************************)
(* AutoSaveScheduler (candle_auto_save.py).                                *)
(* tracked_symbols is the dict in insertion order: a sequence of configs.  *)
(* check_and_save is followed store call by store call: sched.pc is the    *)
(* call the thread is about to make for the key at position sched.pos of   *)
(* the snapshot list(self.tracked_symbols.items()) of sched.n entries.     *)
(* A store call may fail (sqlite3 error): a nondeterministic outcome,      *)
(* counted in faults.                                                      *)
(***************************************************************************)
ConfigKey(config) == MkKey(config.symbol, config.timeframe_minutes, config.version)

\* key = f"{symbol}|{timeframe_minutes}|{version}": the key of the tracked_symbols dict
TrackKey(k) == k.symbol \o "|" \o ToString(k.timeframe_minutes) \o "|" \o k.version

\* two triples are stored under the same dict key when they format to the same
\* string (equal triples do)
SameTrackKey(k1, k2) == k1 = k2 \/ TrackKey(k1) = TrackKey(k2)

\* the position of the entry stored under the dict key of k, 0 without one
TrackedPos(ts, k) ==
    IF \E i \in 1..Len(ts) : SameTrackKey(ConfigKey(ts[i]), k)
    THEN CHOOSE i \in 1..Len(ts) : SameTrackKey(ConfigKey(ts[i]), k)
    ELSE 0

IsTracked(ts, k) == TrackedPos(ts, k) # 0

\* the parameters a caller of track_symbol passes
MkParams(initial_price, volatility, price_decimals) ==
    [initial_price |-> initial_price, volatility |-> volatility,
     price_decimals |-> price_decimals]
Params1 == MkParams(1005, 20, 2)
Params2 == MkParams(2000, 30, 3)
TrackInputs == {<<K1, Params1>>, <<K1, Params2>>}
TwoKeyInputs == {<<K1, Params1>>, <<K2, Params1>>}

\* mutant: track_symbol without its "if key in self.tracked_symbols: return"
track_symbol_overwrites(ts, k, params, server_time_ms, table) ==
    LET current_index == get_candle_index(server_time_ms, k.timeframe_minutes)
        last_candle == get_latest_candle(table, k)
        prev_close == IF last_candle # NoneRow THEN last_candle.close
                      ELSE params.initial_price
        config == [symbol |-> k.symbol, timeframe_minutes |-> k.timeframe_minutes,
                   version |-> k.version, initial_price |-> params.initial_price,
                   volatility |-> params.volatility,
                   price_decimals |-> params.price_decimals,
                   last_saved_index |-> current_index, prev_close |-> prev_close]
    IN  [ts |-> IF IsTracked(ts, k) THEN [ts EXCEPT ![TrackedPos(ts, k)] = config]
                ELSE Append(ts, config),
         calls |-> {"get_latest_candle"}]

\* mutant: tracking resumes right after the latest persisted candle
track_symbol_resumes(ts, k, params, server_time_ms, table) ==
    IF IsTracked(ts, k)
    THEN [ts |-> ts, calls |-> {}]
    ELSE LET current_index == get_candle_index(server_time_ms, k.timeframe_minutes)
             last_candle == get_latest_candle(table, k)
             prev_close == IF last_candle # NoneRow THEN last_candle.close
                           ELSE params.initial_price
             resume == IF last_candle # NoneRow
                       THEN get_candle_index(last_candle.start_time_ms,
                                             k.timeframe_minutes) + 1
                       ELSE current_index
         IN  [ts |-> Append(ts,
                       [symbol |-> k.symbol, timeframe_minutes |-> k.timeframe_minutes,
                        version |-> k.version, initial_price |-> params.initial_price,
                        volatility |-> params.volatility,
                        price_decimals |-> params.price_decimals,
                        last_saved_index |-> resume, prev_close |-> prev_close]),
              calls |-> {"get_latest_candle"}]

\* track_symbol: the dict afterwards and the store functions it called
track_symbol(ts, k, params, server_time_ms, table) ==
    IF IsTracked(ts, k)
    THEN [ts |-> ts, calls |-> {}]
    ELSE LET current_index == get_candle_index(server_time_ms, k.timeframe_minutes)
             last_candle == get_latest_candle(table, k)
             prev_close == IF last_candle # NoneRow THEN last_candle.close
                           ELSE params.initial_price
         IN  [ts |-> Append(ts,
                       [symbol |-> k.symbol, timeframe_minutes |-> k.timeframe_minutes,
                        version |-> k.version, initial_price |-> params.initial_price,
                        volatility |-> params.volatility,
                        price_decimals |-> params.price_decimals,
                        last_saved_index |-> current_index, prev_close |-> prev_close]),
              calls |-> {"get_latest_candle"}]

TrackSymbol(k, params) ==
    LET r == track_symbol(tracked_symbols, k, params, now, candles)
    IN  /\ tracked_symbols' = r.ts
        /\ tracked0' = IF IsTracked(tracked_symbols, k) THEN tracked0
                       ELSE Append(tracked0, get_candle_index(now, k.timeframe_minutes))
        /\ op' = MkOp("track_symbol", k, params, IsTracked(tracked_symbols, k), r.calls)
        /\ UNCHANGED <<histVars, userVars, genVars, now, storeVars, sched, tick0, faults, raceVars, loopVars>>

\* the completed candle check_and_save generates for an index of a config
CompletedCandle(config, index) ==
    generate_deterministic_candle(ConfigKey(config), index, config.prev_close,
        config.volatility, config.timeframe_minutes, config.price_decimals,
        get_candle_start_time(index, config.timeframe_minutes))

\* mutant: the partial generated from the price the entry was created with
PartialCandleFromInitialPrice(config, current_index, server_time_ms) ==
    generate_partial_candle(ConfigKey(config), current_index, config.initial_price,
        get_candle_start_time(current_index, config.timeframe_minutes), server_time_ms,
        config.timeframe_minutes * 60 * 1000, config.volatility,
        config.timeframe_minutes, config.price_decimals)

\* the partial candle check_and_save generates for the current index
PartialCandle(config, current_index, server_time_ms) ==
    generate_partial_candle(ConfigKey(config), current_index, config.prev_close,
        get_candle_start_time(current_index, config.timeframe_minutes), server_time_ms,
        config.timeframe_minutes * 60 * 1000, config.volatility,
        config.timeframe_minutes, config.price_decimals)

\* elapsed = server_time_ms - candle_start_ms of the partial for the current index
PartialElapsed(config, current_index, server_time_ms) ==
    server_time_ms - get_candle_start_time(current_index, config.timeframe_minutes)

\* what a tick hands to save_partial_candle: the candle, the elapsed time it was
\* generated with and the entry's last_saved_index at that moment
StoredPartial(config, current_index, server_time_ms) ==
    [candle |-> PartialCandle(config, current_index, server_time_ms),
     elapsed |-> PartialElapsed(config, current_index, server_time_ms),
     timeframe_ms |-> config.timeframe_minutes * 60 * 1000,
     last_saved_index |-> config.last_saved_index]

\* mutant: any change of index counts as a new candle
IndexChanged(current_index, config) == current_index # config.last_saved_index

\* if current_index > config['last_saved_index']
NewCandle(current_index, config) == current_index > config.last_saved_index

\* mutant: only the candle just completed is finalized
OnlyLastCompleted(config, current_index) == (current_index - 1)..(current_index - 1)

\* range(config['last_saved_index'], current_index)
CompletedRange(config, current_index) ==
    config.last_saved_index..(current_index - 1)

\* the thread's position when it turns to the key at position p of its snapshot
EnterKey(s, ts, p) ==
    IF p > s.n
    THEN [s EXCEPT !.pc = "end", !.pos = p]
    ELSE LET config == ts[p]
             current_index == get_candle_index(s.server_time_ms, config.timeframe_minutes)
             range == CompletedRange(config, current_index)
         IN  [s EXCEPT !.pos = p, !.current_index = current_index, !.saved = <<>>,
                       !.completed_index =
                           IF range = {} THEN current_index
                           ELSE CHOOSE i \in range : \A j \in range : i <= j,
                       !.pc = IF ~NewCandle(current_index, config) THEN "partial"
                              ELSE IF range = {} THEN "advance" ELSE "save"]

\* mutant: the try/except around the whole for loop
TickAbortedOnError(s, ts, call) ==
    [s EXCEPT !.pc = "end", !.failed = s.failed \cup {<<s.pos, call>>}]

\* except Exception as e: logger.error(...), inside the for loop: on to the next key
KeyFailed(s, ts, call) ==
    EnterKey([s EXCEPT !.failed = s.failed \cup {<<s.pos, call>>}], ts, s.pos + 1)

\* what a step of the scheduler, the clock or the process leaves in op
InternalOp(name, calls) == MkOp(name, NoKey, NoArg, FALSE, calls)
SchedOp(call, result) == InternalOp("check_and_save", {call})

CanFail == faults < MaxFaults
Failure == faults + 1

\* server_time_ms = int(time.time() * 1000); for key, config in list(...items())
TickBegin ==
    /\ sched.pc = "sleep"
    /\ tick0' = tracked_symbols
    /\ sched' = EnterKey([SchedIdle EXCEPT !.server_time_ms = now,
                                           !.n = Len(tracked_symbols)],
                         tracked_symbols, 1)
    /\ op' = InternalOp("check_and_save", {})
    /\ UNCHANGED <<histVars, userVars, genVars, now, storeVars, tracked_symbols, tracked0, faults, raceVars, loopVars>>

\* mutant: a failing save_candle is swallowed inside the for loop, which goes on
TickSaveCandle_skipping_on_error ==
    /\ sched.pc = "save"
    /\ LET config == tracked_symbols[sched.pos]
           candle == CompletedCandle(config, sched.completed_index)
           r == save_candle(candles, ConfigKey(config), to_dict(candle))
       IN  \/ /\ candles' = r.db
              /\ sched' = [sched EXCEPT !.pc = "delete",
                                        !.saved = Append(sched.saved,
                                            <<sched.completed_index, candle.close>>)]
              /\ op' = SchedOp("save_candle", r.result)
              /\ UNCHANGED faults
           \/ /\ CanFail
              /\ faults' = Failure
              /\ sched' = [sched EXCEPT !.pc = "delete"]
              /\ op' = SchedOp("save_candle", "error")
              /\ UNCHANGED candles
    /\ UNCHANGED <<histVars, userVars, genVars, now, partial_candles, tracked_symbols, tracked0, tick0, raceVars, loopVars>>

\* candle = generate_deterministic_candle(...); inserted = save_candle(...)
TickSaveCandle ==
    /\ sched.pc = "save"
    /\ LET config == tracked_symbols[sched.pos]
           candle == CompletedCandle(config, sched.completed_index)
           r == save_candle(candles, ConfigKey(config), to_dict(candle))
       IN  \/ /\ candles' = r.db
              /\ sched' = [sched EXCEPT !.pc = "delete",
                                        !.saved = Append(sched.saved,
                                            <<sched.completed_index, candle.close>>)]
              /\ op' = SchedOp("save_candle", r.result)
              /\ UNCHANGED faults
           \/ /\ CanFail
              /\ faults' = Failure
              /\ sched' = KeyFailed(sched, tracked_symbols, "save_candle")
              /\ op' = SchedOp("save_candle", "error")
              /\ UNCHANGED candles
    /\ UNCHANGED <<histVars, userVars, genVars, now, partial_candles, tracked_symbols, tracked0, tick0, raceVars, loopVars>>

\* mutant: the loop without its delete_partial_candle call
TickDeletePartial_skipped ==
    /\ sched.pc = "delete"
    /\ LET config == tracked_symbols[sched.pos]
           candle == CompletedCandle(config, sched.completed_index)
           more == sched.completed_index + 1
                      \in CompletedRange(config, sched.current_index)
       IN  /\ tracked_symbols' = [tracked_symbols EXCEPT
                                     ![sched.pos].prev_close = candle.close]
           /\ sched' = [sched EXCEPT !.completed_index = sched.completed_index + 1,
                                     !.pc = IF more THEN "save" ELSE "advance"]
           /\ op' = SchedOp("prev_close", "ok")
    /\ UNCHANGED <<histVars, userVars, genVars, now, storeVars, tick0, tracked0, faults, raceVars, loopVars>>

\* delete_partial_candle(...); config['prev_close'] = candle.close; next index
TickDeletePartial ==
    /\ sched.pc = "delete"
    /\ LET config == tracked_symbols[sched.pos]
           candle == CompletedCandle(config, sched.completed_index)
           start_ms == get_candle_start_time(sched.completed_index, config.timeframe_minutes)
           r == delete_partial_candle(partial_candles, ConfigKey(config), start_ms)
           more == sched.completed_index + 1
                      \in CompletedRange(config, sched.current_index)
       IN  \/ /\ partial_candles' = r.db
              /\ tracked_symbols' = [tracked_symbols EXCEPT
                                        ![sched.pos].prev_close = candle.close]
              /\ sched' = [sched EXCEPT !.completed_index = sched.completed_index + 1,
                                        !.pc = IF more THEN "save" ELSE "advance"]
              /\ op' = SchedOp("delete_partial_candle", r.result)
              /\ UNCHANGED faults
           \/ /\ CanFail
              /\ faults' = Failure
              /\ sched' = KeyFailed(sched, tracked_symbols, "delete_partial_candle")
              /\ op' = SchedOp("delete_partial_candle", "error")
              /\ UNCHANGED <<partial_candles, tracked_symbols>>
    /\ UNCHANGED <<histVars, userVars, genVars, now, candles, tick0, tracked0, raceVars, loopVars>>

\* config['last_saved_index'] = current_index
TickAdvance ==
    /\ sched.pc = "advance"
    /\ tracked_symbols' = [tracked_symbols EXCEPT
                              ![sched.pos].last_saved_index = sched.current_index]
    /\ sched' = [sched EXCEPT !.pc = "partial"]
    /\ op' = SchedOp("advance", "ok")
    /\ UNCHANGED <<histVars, userVars, genVars, now, storeVars, tick0, tracked0, faults, raceVars, loopVars>>

\* partial = generate_partial_candle(...); save_partial_candle(...)
TickSavePartial ==
    /\ sched.pc = "partial"
    /\ LET config == tracked_symbols[sched.pos]
           partial == PartialCandle(config, sched.current_index, sched.server_time_ms)
           r == save_partial_candle(partial_candles, ConfigKey(config), to_dict(partial))
       IN  \/ /\ partial_candles' = r.db
              /\ last_partial' = [last_partial EXCEPT ![ConfigKey(config)] =
                                     StoredPartial(config, sched.current_index,
                                                   sched.server_time_ms)]
              /\ sched' = EnterKey(sched, tracked_symbols, sched.pos + 1)
              /\ op' = SchedOp("save_partial_candle", r.result)
              /\ UNCHANGED faults
           \/ /\ CanFail
              /\ faults' = Failure
              /\ sched' = KeyFailed(sched, tracked_symbols, "save_partial_candle")
              /\ op' = SchedOp("save_partial_candle", "error")
              /\ UNCHANGED <<partial_candles, last_partial>>
    /\ UNCHANGED <<userVars, genVars, now, candles, tracked_symbols, tracked0, tick0, raceVars, loopVars>>

\* check_and_save returns; run() goes to time.sleep(self.check_interval)
TickEnd ==
    /\ sched.pc = "end"
    /\ sched' = SchedIdle
    /\ tick0' = <<>>
    /\ op' = InternalOp("check_and_save", {})
    /\ UNCHANGED <<histVars, userVars, genVars, now, storeVars, tracked_symbols, tracked0, faults, raceVars, loopVars>>

\* the wall clock advances.  A tick reads the clock once, as it begins, so a
\* change of the clock during a tick is the same change right after it.
ClockForward ==
    /\ sched.pc = "sleep"
    /\ now + ClockStep <= MaxBuckets * MsPerMinute
    /\ now' = now + ClockStep
    /\ op' = InternalOp("clock", {})
    /\ UNCHANGED <<histVars, userVars, genVars, storeVars, schedVars, raceVars, loopVars>>

\* the wall clock is set back by one observation step (time.time() is not
\* monotonic); two such steps set it back by a whole 1-minute bucket
ClockBack ==
    /\ sched.pc = "sleep"
    /\ faults < MaxFaults
    /\ now >= ClockStep
    /\ now' = now - ClockStep
    /\ faults' = faults + 1
    /\ op' = InternalOp("clock", {})
    /\ UNCHANGED <<histVars, userVars, genVars, storeVars, tracked_symbols, tracked0, sched, tick0, raceVars, loopVars>>

\* the process restarts: memory is lost, the database file stays
Restart ==
    /\ faults < MaxFaults
    /\ tracked_symbols' = <<>>
    /\ tracked0' = <<>>
    /\ sched' = SchedIdle
    /\ tick0' = <<>>
    /\ faults' = faults + 1
    /\ op' = InternalOp("restart", {})
    /\ UNCHANGED <<histVars, userVars, genVars, now, storeVars, raceVars, loopVars>>

Next ==
    \/ \E in \in TrackInputs : TrackSymbol(in[1], in[2])
    \/ TickBegin
    \/ TickSaveCandle
    \/ TickDeletePartial
    \/ TickAdvance
    \/ TickSavePartial
    \/ TickEnd
    \/ ClockForward
    \/ ClockBack
    \/ Restart

\* The state after construction of the scheduler alone: the application of
\* this specification starts no saver, generator, handler, resolver or
\* start()/stop() threads, so the pools of such threads are empty.
InitSched ==
    /\ user = NewUser
    /\ trade_seq = 0
    /\ resolvers = <<>>
    /\ now = 0
    /\ candles = EmptyBag
    /\ partial_candles = EmptyBag
    /\ op = NoOp
    /\ tracked_symbols = <<>>
    /\ sched = SchedIdle
    /\ tick0 = <<>>
    /\ tracked0 = <<>>
    /\ last_partial = [k \in SeriesKeys |-> NoPartial]
    /\ gens = <<>>
    /\ rngs = <<>>
    /\ prng = NoPrng
    /\ faults = 0
    /\ callers = <<>>
    /\ handlers = <<>>
    /\ query = QueryIdle
    /\ running = FALSE
    /\ thread = 0
    /\ threads = <<>>
    /\ clients = <<>>

Spec == InitSched /\ [][Next]_vars

(***************************************************************************)
(* The scheduler loop that keeps running (run: while self.running, one     *)
(* check_and_save every check_interval): no restart, and the thread takes  *)
(* its next step, whichever it is, once that step is due.  The wall clock  *)
(* moves forward only.  Store failures stay possible and are finitely many *)
(* (CanFail).                                                              *)
(***************************************************************************)
TickStep ==
    \/ TickBegin
    \/ TickSaveCandle
    \/ TickDeletePartial
    \/ TickAdvance
    \/ TickSavePartial
    \/ TickEnd

NextLive ==
    \/ TrackSymbol(K1, Params1)
    \/ TickStep
    \/ ClockForward

\* Weak fairness of the scheduler step taken at position pc. The step's first
\* branch needs nothing but the position, so ENABLED of the step is
\* (sched.pc = pc), and only the scheduler's own steps change sched, so the
\* step is the thread leaving pc: WF_vars(step) written out with both replaced.
SchedulerFair(pc) == []<>(sched.pc # pc) \/ []<><<sched.pc = pc>>_sched

\* the daemon thread of run() is always scheduled again: each step of
\* check_and_save, and the wake-up from time.sleep, is eventually taken
SpecLive ==
    /\ InitShared /\ [][NextLive]_vars
    /\ WF_vars(TickBegin) /\ WF_vars(TickAdvance) /\ WF_vars(TickEnd)
    /\ SchedulerFair("save") /\ SchedulerFair("delete") /\ SchedulerFair("partial")

\* two tracked keys of different timeframes, store failures, a forward clock
NextTwoKeys ==
    \/ \E in \in TwoKeyInputs : TrackSymbol(in[1], in[2])
    \/ TickBegin
    \/ TickSaveCandle
    \/ TickDeletePartial
    \/ TickAdvance
    \/ TickSavePartial
    \/ TickEnd
    \/ ClockForward

SpecTwoKeys == InitShared /\ [][NextTwoKeys]_vars

\* keys that differ only in version and keys that share a dict key: tracked when the
\* process starts and ticked up to the first bucket boundary, while a caller uses
\* the store between two ticks
IsolationKeys == {K5, K6, K7}
IsolationInputs == {<<k, Params1>> : k \in IsolationKeys}
CallerKeys == {K7}

NextIsolation ==
    \/ /\ now = 0 /\ sched.pc = "sleep"
       /\ \E in \in IsolationInputs : TrackSymbol(in[1], in[2])
    \/ TickBegin
    \/ TickSaveCandle
    \/ TickDeletePartial
    \/ TickAdvance
    \/ TickSavePartial
    \/ TickEnd
    \/ /\ now < MsPerMinute
       /\ ClockForward
    \/ /\ sched.pc = "sleep"
       /\ \E k \in CallerKeys : SaveCandle(k, Payload(0, 1))
    \/ /\ sched.pc = "sleep"
       /\ \E k \in CallerKeys : DeleteCandles(k)
    \/ /\ sched.pc = "sleep"
       /\ \E k \in CallerKeys :
              SavePartialCandle(k, [Payload(0, 1) EXCEPT !.is_partial = TRUE])
    \/ /\ sched.pc = "sleep"
       /\ \E k \in CallerKeys : DeletePartialCandle(k, 0)

SpecIsolation == InitShared /\ [][NextIsolation]_vars

(***************************************************************************)
(* The close after finalizing the indices from..to-1 in a row, each candle *)
(* generated from the close of the one before (config.prev_close first).   *)
(***************************************************************************)
RECURSIVE ChainClose(_, _, _)
ChainClose(config, from, to) ==
    IF from >= to THEN config.prev_close
    ELSE ChainClose([config EXCEPT !.prev_close = CompletedCandle(config, from).close],
                    from + 1, to)

TickIndex(config) == get_candle_index(sched.server_time_ms, config.timeframe_minutes)
FailedPositions == {f[1] : f \in sched.failed}

\* what a tick that finds config0 leaves of it when no store call fails
FinalizedAsExpected(config0, config) ==
    LET cur == TickIndex(config0)
    IN  /\ config.last_saved_index = Max(cur, config0.last_saved_index)
        /\ config.prev_close = ChainClose(config0, config0.last_saved_index, cur)
        /\ \A i \in config0.last_saved_index..(cur - 1) :
              RowsAt(candles, ConfigKey(config0),
                     get_candle_start_time(i, config0.timeframe_minutes)) # {}

(***************************************************************************)
(* C4: a tick that finds currentIndex > last_saved_index for a key, no     *)
(* store call failing, calls save_candle for every index of                *)
(* [last_saved_index, currentIndex) in ascending order, each candle        *)
(* generated from the running prev_close, and leaves last_saved_index =    *)
(* currentIndex and prev_close = the close generated for currentIndex - 1. *)
(***************************************************************************)
C4_TickFinalizesEveryIndex ==
    /\ sched.pc = "partial" /\ tick0[sched.pos].last_saved_index < sched.current_index =>
          LET config0 == tick0[sched.pos]
              first == config0.last_saved_index
          IN  /\ sched.saved = [j \in 1..(sched.current_index - first) |->
                                   <<first + j - 1, ChainClose(config0, first, first + j)>>]
              /\ FinalizedAsExpected(config0, tracked_symbols[sched.pos])
              /\ tracked_symbols[sched.pos].last_saved_index = sched.current_index
    /\ sched.pc = "end" =>
          \A p \in 1..sched.n :
              (p \notin FailedPositions /\ tick0[p].last_saved_index < TickIndex(tick0[p])) =>
                  /\ FinalizedAsExpected(tick0[p], tracked_symbols[p])
                  /\ tracked_symbols[p].last_saved_index = TickIndex(tick0[p])

\* a tick finalized two indices of a key at once and moved its prev_close
C4_Witness ==
    /\ sched.pc = "end"
    /\ \E p \in 1..sched.n :
          /\ p \notin FailedPositions
          /\ tick0[p].last_saved_index + 2 <= TickIndex(tick0[p])
          /\ tracked_symbols[p].prev_close # tick0[p].prev_close

(***************************************************************************)
(* C5: last_saved_index of a tracked key never decreases, whatever ticks   *)
(* and track_symbol calls happen, also when the clock reads an earlier     *)
(* time than at the tick before.                                           *)
(***************************************************************************)
C5_LastSavedIndexNeverDecreases ==
    [][\A k \in {K1, K2} :
          (IsTracked(tracked_symbols, k) /\ IsTracked(tracked_symbols', k)) =>
              tracked_symbols'[TrackedPos(tracked_symbols', k)].last_saved_index
                  >= tracked_symbols[TrackedPos(tracked_symbols, k)].last_saved_index
      ]_vars

\* a tick whose clock reading lies in a bucket before last_saved_index
C5_Witness ==
    /\ sched.pc = "partial"
    /\ sched.current_index < tracked_symbols[sched.pos].last_saved_index

(***************************************************************************)
(* C6 as claimed: every key has at most one row in partial_candles, and    *)
(* once a tick has processed the key without failure that row starts at    *)
(* the current bucket, also after a restart and after the clock moved.     *)
(***************************************************************************)
C6_OnePartialRowPerKey ==
    \A k \in {K1, K2} :
        /\ Cardinality(RowsOfKey(partial_candles, k)) <= 1
        /\ (sched.pc = "end" /\ IsTracked(tick0, k)
              /\ TrackedPos(tick0, k) \notin FailedPositions) =>
              \A r \in RowsOfKey(partial_candles, k) :
                  r.start_time_ms =
                      get_candle_start_time(
                          get_candle_index(now, k.timeframe_minutes), k.timeframe_minutes)

(***************************************************************************)
(* C7 as claimed: when save_candle or delete_partial_candle fails while a  *)
(* tick finalizes a key, the key's last_saved_index and prev_close are     *)
(* what they were before the tick.                                         *)
(***************************************************************************)
C7_FailedTickLeavesStateUnchanged ==
    \A f \in sched.failed :
        f[2] \in {"save_candle", "delete_partial_candle"} =>
            /\ tracked_symbols[f[1]].last_saved_index = tick0[f[1]].last_saved_index
            /\ tracked_symbols[f[1]].prev_close = tick0[f[1]].prev_close

(***************************************************************************)
(* C8: a failure while one key is processed does not stop the tick: at the *)
(* end of the tick every other key of the tick has been finalized and its  *)
(* partial refreshed exactly as without the failure.                       *)
(***************************************************************************)
C8_OtherKeysStillProcessed ==
    sched.pc = "end" =>
        \A p \in 1..sched.n :
            p \notin FailedPositions =>
                LET config == tracked_symbols[p]
                    cur == TickIndex(config)
                IN  /\ FinalizedAsExpected(tick0[p], config)
                    /\ RowsAt(partial_candles, ConfigKey(config),
                              get_candle_start_time(cur, config.timeframe_minutes))
                         = {MkRow(ConfigKey(config),
                                  PartialCandle(config, cur, sched.server_time_ms))}

\* the first key's finalization failed and the second key was finalized after it
C8_Witness ==
    /\ sched.pc = "end"
    /\ sched.n = 2
    /\ 1 \in FailedPositions
    /\ 2 \notin FailedPositions
    /\ tick0[2].last_saved_index < TickIndex(tick0[2])
    /\ tracked_symbols[2].last_saved_index = TickIndex(tick0[2])

(***************************************************************************)
(* C10: track_symbol for a key already tracked changes nothing, whatever   *)
(* parameters it passes, and does not touch the store.                     *)
(***************************************************************************)
C10_TrackTrackedKeyIsNoOp ==
    [][(op'.name = "track_symbol" /\ IsTracked(tracked_symbols, op'.key)) =>
          /\ tracked_symbols' = tracked_symbols
          /\ candles' = candles
          /\ partial_candles' = partial_candles
          /\ op'.calls = {}
      ]_vars

\* a second call with other parameters, after the scheduler advanced the entry
C10_Witness ==
    /\ op.name = "track_symbol"
    /\ op.result = TRUE
    /\ LET config == tracked_symbols[TrackedPos(tracked_symbols, op.key)]
       IN  /\ config.initial_price # op.arg.initial_price
           /\ config.volatility # op.arg.volatility
           /\ config.prev_close # config.initial_price
           /\ config.last_saved_index > 0

(***************************************************************************)
(* SpecThreads: CandleAutoSaver.start(), stop() and run() called from      *)
(* several threads.  A statement of start()/stop() is one step; run() is   *)
(* the while test, the tick (check_and_save, modelled in Spec) and the     *)
(* sleep.                                                                  *)
(***************************************************************************)
LoopThreads == 1..MaxThreads
Clients == 1..MaxClients
Unborn == {t \in LoopThreads : threads[t] = "unborn"}
Starting == {c \in Clients : clients[c].pc \in {"start_set", "start_spawn"}}
Ticking == {t \in LoopThreads : threads[t] = "tick"}

\* if self.running: return
StartCheck(c) ==
    /\ clients[c].pc = "idle"
    /\ Cardinality(Unborn) > Cardinality(Starting)
    /\ clients' = [clients EXCEPT ![c].pc = IF running THEN "idle" ELSE "start_set"]
    /\ op' = InternalOp("start", {})
    /\ UNCHANGED <<histVars, userVars, genVars, now, storeVars, schedVars, raceVars, running, thread, threads>>

\* self.running = True
StartSet(c) ==
    /\ clients[c].pc = "start_set"
    /\ running' = TRUE
    /\ clients' = [clients EXCEPT ![c].pc = "start_spawn"]
    /\ op' = InternalOp("start", {})
    /\ UNCHANGED <<histVars, userVars, genVars, now, storeVars, schedVars, raceVars, thread, threads>>

\* self.thread = threading.Thread(target=self.run, daemon=True); self.thread.start()
StartSpawn(c) ==
    /\ clients[c].pc = "start_spawn"
    /\ Unborn # {}
    /\ LET t == CHOOSE u \in Unborn : \A v \in Unborn : u <= v
       IN  /\ thread' = t
           /\ threads' = [threads EXCEPT ![t] = "check"]
    /\ clients' = [clients EXCEPT ![c].pc = "idle"]
    /\ op' = InternalOp("start", {})
    /\ UNCHANGED <<histVars, userVars, genVars, now, storeVars, schedVars, raceVars, running>>

\* self.running = False; if self.thread: ...
StopSet(c) ==
    /\ clients[c].pc = "idle"
    /\ running' = FALSE
    /\ clients' = [clients EXCEPT ![c] = IF thread # 0
                                         THEN [pc |-> "join", joined |-> thread]
                                         ELSE ClientIdle]
    /\ op' = InternalOp("stop", {})
    /\ UNCHANGED <<histVars, userVars, genVars, now, storeVars, schedVars, raceVars, thread, threads>>

\* self.thread.join(timeout=2): returns when the thread has ended or after 2 s
StopJoin(c) ==
    /\ clients[c].pc = "join"
    /\ clients' = [clients EXCEPT ![c] = ClientIdle]
    /\ op' = MkOp("stop", NoKey, NoArg, threads[clients[c].joined] = "exited", {})
    /\ UNCHANGED <<histVars, userVars, genVars, now, storeVars, schedVars, raceVars, running, thread, threads>>

\* while self.running:
RunTest(t) ==
    /\ threads[t] = "check"
    /\ threads' = [threads EXCEPT ![t] = IF running THEN "tick" ELSE "exited"]
    /\ op' = InternalOp("run", {})
    /\ UNCHANGED <<histVars, userVars, genVars, now, storeVars, schedVars, raceVars, running, thread, clients>>

\* try: self.check_and_save() except Exception: logger.error(...)
RunTick(t) ==
    /\ threads[t] = "tick"
    /\ threads' = [threads EXCEPT ![t] = "sleep"]
    /\ op' = InternalOp("run", {"check_and_save"})
    /\ UNCHANGED <<histVars, userVars, genVars, now, storeVars, schedVars, raceVars, running, thread, clients>>

\* time.sleep(self.check_interval)
RunSleep(t) ==
    /\ threads[t] = "sleep"
    /\ threads' = [threads EXCEPT ![t] = "check"]
    /\ op' = InternalOp("run", {})
    /\ UNCHANGED <<histVars, userVars, genVars, now, storeVars, schedVars, raceVars, running, thread, clients>>

NextThreads ==
    \/ \E c \in Clients : StartCheck(c)
    \/ \E c \in Clients : StartSet(c)
    \/ \E c \in Clients : StartSpawn(c)
    \/ \E c \in Clients : StopSet(c)
    \/ \E c \in Clients : StopJoin(c)
    \/ \E t \in LoopThreads : RunTest(t)
    \/ \E t \in LoopThreads : RunTick(t)
    \/ \E t \in LoopThreads : RunSleep(t)

SpecThreads == InitShared /\ [][NextThreads]_vars

(***************************************************************************)
(* C9 as claimed: at most one loop thread of a CandleAutoSaver is inside a *)
(* tick at any time, whatever the interleaving of start() and stop().      *)
(***************************************************************************)
C9_AtMostOneLoopThreadTicks == Cardinality(Ticking) <= 1

(***************************************************************************)
(* SpecTrackRace: track_symbol called by request threads of the threaded   *)
(* server while the scheduler ticks.  track_symbol holds no lock; its      *)
(* membership test and clock reading, its get_latest_candle and its        *)
(* assignment to tracked_symbols[key] are one step each.  An assignment    *)
(* that replaces an entry is taken between two ticks only (a tick in       *)
(* progress would go on with the dict object it holds).                    *)
(***************************************************************************)
Handlers == 1..MaxHandlers

\* if key in self.tracked_symbols: return; server_time_ms; current_index
HandlerCheck(h, k, params) ==
    /\ handlers[h].pc = "idle"
    /\ handlers' = [handlers EXCEPT ![h] =
          IF IsTracked(tracked_symbols, k) THEN HandlerIdle
          ELSE [pc |-> "read", key |-> k, params |-> params,
                current_index |-> get_candle_index(now, k.timeframe_minutes),
                prev_close |-> 0]]
    /\ op' = MkOp("track_symbol", k, params, IsTracked(tracked_symbols, k), {})
    /\ UNCHANGED <<histVars, userVars, genVars, now, storeVars, schedVars, callers, loopVars, query>>

\* last_candle = get_latest_candle(...); prev_close = ...
HandlerRead(h) ==
    /\ handlers[h].pc = "read"
    /\ LET last_candle == get_latest_candle(candles, handlers[h].key)
       IN  handlers' = [handlers EXCEPT ![h].pc = "store",
                          ![h].prev_close = IF last_candle # NoneRow THEN last_candle.close
                                            ELSE handlers[h].params.initial_price]
    /\ op' = MkOp("track_symbol", handlers[h].key, handlers[h].params, FALSE,
                  {"get_latest_candle"})
    /\ UNCHANGED <<histVars, userVars, genVars, now, storeVars, schedVars, callers, loopVars, query>>

\* self.tracked_symbols[key] = {...}
HandlerStore(h) ==
    /\ handlers[h].pc = "store"
    /\ LET k == handlers[h].key
           params == handlers[h].params
           config == [symbol |-> k.symbol, timeframe_minutes |-> k.timeframe_minutes,
                      version |-> k.version, initial_price |-> params.initial_price,
                      volatility |-> params.volatility,
                      price_decimals |-> params.price_decimals,
                      last_saved_index |-> handlers[h].current_index,
                      prev_close |-> handlers[h].prev_close]
       IN  /\ IsTracked(tracked_symbols, k) => sched.pc = "sleep"
           /\ tracked_symbols' =
                 IF IsTracked(tracked_symbols, k)
                 THEN [tracked_symbols EXCEPT ![TrackedPos(tracked_symbols, k)] = config]
                 ELSE Append(tracked_symbols, config)
           /\ tracked0' = IF IsTracked(tracked_symbols, k) THEN tracked0
                          ELSE Append(tracked0, handlers[h].current_index)
           /\ op' = MkOp("track_symbol", k, params, FALSE, {})
    /\ handlers' = [handlers EXCEPT ![h] = HandlerIdle]
    /\ UNCHANGED <<histVars, userVars, genVars, now, storeVars, sched, tick0, faults, callers, loopVars, query>>

NextTrackRace ==
    \/ \E h \in Handlers : HandlerCheck(h, K1, Params1)
    \/ \E h \in Handlers : HandlerRead(h)
    \/ \E h \in Handlers : HandlerStore(h)
    \/ TickBegin
    \/ TickSaveCandle
    \/ TickDeletePartial
    \/ TickAdvance
    \/ TickSavePartial
    \/ TickEnd
    \/ ClockForward

SpecTrackRace == InitShared /\ [][NextTrackRace]_vars

(***************************************************************************)
(* C11 as claimed: once the scheduler has advanced the entry of a key (its *)
(* prev_close is no longer the initial price it was created with), no step *)
(* of a track_symbol call changes the entry, however the calls interleave  *)
(* with each other and with the scheduler's ticks.                         *)
(***************************************************************************)
C11_TrackNeverOverwritesAdvancedEntry ==
    [][(/\ IsTracked(tracked_symbols, K1)
        /\ tracked_symbols[TrackedPos(tracked_symbols, K1)].prev_close
              # tracked_symbols[TrackedPos(tracked_symbols, K1)].initial_price
        /\ handlers' # handlers) =>
          tracked_symbols' = tracked_symbols]_vars

(***************************************************************************)
(* C12: track_symbol for a new key creates the entry with last_saved_index *)
(* = the bucket index of the current time and prev_close = the close of    *)
(* the key's latest persisted candle (the supplied initial price when it   *)
(* has none); and every completed candle the scheduler writes for the key  *)
(* starts no earlier than the bucket in which the entry was created.       *)
(***************************************************************************)
LatestRows(table, k) ==
    {r \in RowsOfKey(table, k) :
        \A q \in RowsOfKey(table, k) : q.start_time_ms <= r.start_time_ms}

AddedRows(before, after) ==
    {r \in BagToSet(after) : CopiesIn(r, after) > CopiesIn(r, before)}

C12_TrackStartsAtCurrentBucket ==
    [][/\ (op'.name = "track_symbol" /\ ~IsTracked(tracked_symbols, op'.key)) =>
            LET config == tracked_symbols'[Len(tracked_symbols')]
            IN  /\ Len(tracked_symbols') = Len(tracked_symbols) + 1
                /\ ConfigKey(config) = op'.key
                /\ config.last_saved_index
                     = get_candle_index(now, op'.key.timeframe_minutes)
                /\ IF RowsOfKey(candles, op'.key) = {}
                   THEN config.prev_close = op'.arg.initial_price
                   ELSE \A r \in LatestRows(candles, op'.key) :
                           config.prev_close = r.close
       /\ \A r \in AddedRows(candles, candles') :
            /\ IsTracked(tracked_symbols, KeyOf(r))
            /\ r.start_time_ms >=
                 get_candle_start_time(tracked0[TrackedPos(tracked_symbols, KeyOf(r))],
                                       r.timeframe_minutes)
      ]_vars

\* the scheduler has just written the candle of the bucket in which the entry was
\* created, while the store holds an older candle of the key from before a restart
C12_Witness ==
    /\ sched.pc = "delete"
    /\ tracked0[sched.pos] >= 1
    /\ LET config == tracked_symbols[sched.pos]
           created_ms == get_candle_start_time(tracked0[sched.pos],
                                               config.timeframe_minutes)
       IN  /\ RowsAt(candles, ConfigKey(config), created_ms) # {}
           /\ \E r \in RowsOfKey(candles, ConfigKey(config)) :
                 r.start_time_ms < created_ms

C14_PartialFractionNonDecreasing ==
    [][\A k \in SeriesKeys :
          (/\ last_partial'[k] # last_partial[k]
           /\ last_partial[k] # NoPartial
           /\ last_partial'[k].last_saved_index = last_partial[k].last_saved_index
           /\ last_partial'[k].candle.start_time_ms = last_partial[k].candle.start_time_ms)
          => /\ last_partial'[k].elapsed >= 0
             /\ last_partial'[k].elapsed <= last_partial'[k].timeframe_ms
             /\ last_partial'[k].elapsed >= last_partial[k].elapsed
             /\ last_partial'[k].candle.volume >= last_partial[k].candle.volume
      ]_vars

(***************************************************************************)
(* C15 as claimed: stop() is graceful.  When a stop() call returns (its    *)
(* join is over), no loop thread is inside a tick: the tick that was in    *)
(* progress when stop() was called has run to completion.                  *)
(***************************************************************************)
C15_StopReturnsAfterTick ==
    [][(\E c \in Clients : clients[c].pc = "join" /\ clients'[c].pc = "idle")
          => Ticking = {}]_vars

(***************************************************************************)
(* SpecGen: the generator's and the bucketing's functions called one at a  *)
(* time with arguments drawn from bounded sets; op holds the call, its     *)
(* arguments and what it returned.  A behaviour is one call.               *)
(***************************************************************************)
MaxIndex == 3         \* candle indices 0..MaxIndex
MaxCount == 3         \* generate_series counts 0..MaxCount

GenTimeframes == {1, 2, 5}
GenTimes ==
    {b * MsPerMinute + d : b \in 0..(MaxBuckets + 3),
                           d \in {0, 1, ClockStep, MsPerMinute - 1}}
GenIndexes == 0..MaxIndex

GetCandleIndex(time_ms, timeframe_minutes) ==
    /\ op.name = "init"
    /\ op' = MkOp("get_candle_index", NoKey,
                  [time_ms |-> time_ms, timeframe_minutes |-> timeframe_minutes],
                  get_candle_index(time_ms, timeframe_minutes), {})
    /\ UNCHANGED <<histVars, userVars, genVars, now, storeVars, schedVars, raceVars, loopVars>>

GetCandleStartTime(index, timeframe_minutes) ==
    /\ op.name = "init"
    /\ op' = MkOp("get_candle_start_time", NoKey,
                  [index |-> index, timeframe_minutes |-> timeframe_minutes],
                  get_candle_start_time(index, timeframe_minutes), {})
    /\ UNCHANGED <<histVars, userVars, genVars, now, storeVars, schedVars, raceVars, loopVars>>

GenKeys == {K1, K2, K4}
GenSeriesKeys == {K1, K2}
GenPrices == {1005, 2000}
GenVolatilities == {20, 30}
GenDecimals == {2, 3}
\* elapsed times of a partial candle: quarters of the timeframe, and beyond both ends
GenElapsed(timeframe_ms) == {(timeframe_ms \div 4) * q : q \in -1..5}
GenCounts == 0..MaxCount
GenStarts == {0, ClockStep, MsPerMinute}

\* mutant: every candle of the series is generated from initial_price
RECURSIVE generate_series_unchained(_, _, _, _, _, _, _, _)
generate_series_unchained(symbol, timeframe_minutes, version, start_time_ms, count, initial_price, volatility, price_decimals) ==
    IF count <= 0 THEN <<>>
    ELSE Append(generate_series_unchained(symbol, timeframe_minutes, version, start_time_ms,
                    count - 1, initial_price, volatility, price_decimals),
                generate_deterministic_candle(MkKey(symbol, timeframe_minutes, version),
                    count - 1, initial_price, volatility, timeframe_minutes, price_decimals,
                    start_time_ms + (count - 1) * (timeframe_minutes * 60 * 1000)))

\* generate_series with date_range_start_iso = "" (what every caller passes):
\* the candles of for i in range(count), the last one appended to those before it
RECURSIVE generate_series(_, _, _, _, _, _, _, _)
generate_series(symbol, timeframe_minutes, version, start_time_ms, count, initial_price, volatility, price_decimals) ==
    IF count <= 0 THEN <<>>
    ELSE LET candles_ == generate_series(symbol, timeframe_minutes, version, start_time_ms,
                             count - 1, initial_price, volatility, price_decimals)
             i == count - 1
             prev_close == IF i = 0 THEN initial_price ELSE candles_[i].close
             timeframe_ms == timeframe_minutes * 60 * 1000
         IN  Append(candles_,
                    generate_deterministic_candle(MkKey(symbol, timeframe_minutes, version),
                        i, prev_close, volatility, timeframe_minutes, price_decimals,
                        start_time_ms + i * timeframe_ms))

MkGenArg(index, prev_close, volatility, price_decimals, start_time_ms, server_time_ms, count) ==
    [index |-> index, prev_close |-> prev_close, volatility |-> volatility,
     price_decimals |-> price_decimals, start_time_ms |-> start_time_ms,
     server_time_ms |-> server_time_ms, count |-> count]

GenerateCandle(seed_base, index, prev_close, volatility, price_decimals) ==
    LET start_time_ms == get_candle_start_time(index, seed_base.timeframe_minutes)
    IN  /\ op.name = "init"
        /\ op' = MkOp("generate_deterministic_candle", seed_base,
                      MkGenArg(index, prev_close, volatility, price_decimals,
                               start_time_ms, 0, 0),
                      generate_deterministic_candle(seed_base, index, prev_close, volatility,
                          seed_base.timeframe_minutes, price_decimals, start_time_ms), {})
        /\ UNCHANGED <<histVars, userVars, genVars, now, storeVars, schedVars, raceVars, loopVars>>

GeneratePartial(seed_base, index, prev_close, volatility, price_decimals, elapsed) ==
    LET candle_start_ms == get_candle_start_time(index, seed_base.timeframe_minutes)
        timeframe_ms == seed_base.timeframe_minutes * 60 * 1000
    IN  /\ op.name = "init"
        /\ op' = MkOp("generate_partial_candle", seed_base,
                      MkGenArg(index, prev_close, volatility, price_decimals,
                               candle_start_ms, candle_start_ms + elapsed, 0),
                      generate_partial_candle(seed_base, index, prev_close, candle_start_ms,
                          candle_start_ms + elapsed, timeframe_ms, volatility,
                          seed_base.timeframe_minutes, price_decimals), {})
        /\ UNCHANGED <<histVars, userVars, genVars, now, storeVars, schedVars, raceVars, loopVars>>

GenerateSeries(k, start_time_ms, count, initial_price, volatility, price_decimals) ==
    /\ op.name = "init"
    /\ op' = MkOp("generate_series", k,
                  MkGenArg(0, initial_price, volatility, price_decimals, start_time_ms, 0,
                           count),
                  generate_series(k.symbol, k.timeframe_minutes, k.version, start_time_ms,
                      count, initial_price, volatility, price_decimals), {})
    /\ UNCHANGED <<histVars, userVars, genVars, now, storeVars, schedVars, raceVars, loopVars>>

NextGen ==
    \/ \E t \in GenTimes, tf \in GenTimeframes : GetCandleIndex(t, tf)
    \/ \E i \in GenIndexes, tf \in GenTimeframes : GetCandleStartTime(i, tf)
    \/ \E sb \in GenKeys, i \in GenIndexes, p \in GenPrices, v \in GenVolatilities,
          d \in GenDecimals : GenerateCandle(sb, i, p, v, d)
    \/ \E sb \in GenKeys, i \in GenIndexes, p \in GenPrices, v \in GenVolatilities,
          d \in GenDecimals :
          \E e \in GenElapsed(sb.timeframe_minutes * 60 * 1000) :
             GeneratePartial(sb, i, p, v, d, e)
    \/ \E k \in GenSeriesKeys, st \in GenStarts, n \in GenCounts, p \in GenPrices,
          v \in GenVolatilities, d \in GenDecimals : GenerateSeries(k, st, n, p, v, d)

SpecGen == InitShared /\ [][NextGen]_vars

(***************************************************************************)
(* C16: for t >= 0 and tf > 0 the bucket of t starts at or before t and    *)
(* the next bucket starts after t; the index of a bucket's start time is   *)
(* that bucket's index.                                                     *)
(***************************************************************************)
C16_BucketingRoundTrip ==
    /\ op.name = "get_candle_index" =>
          LET t == op.arg.time_ms
              tf == op.arg.timeframe_minutes
          IN  /\ get_candle_start_time(op.result, tf) <= t
              /\ t < get_candle_start_time(op.result + 1, tf)
              /\ \A i \in 0..(MaxBuckets + 4) :
                    t = get_candle_start_time(i, tf) => op.result = i
    /\ op.name = "get_candle_start_time" =>
          /\ op.result % (op.arg.timeframe_minutes * 60 * 1000) = 0
          /\ op.result \div (op.arg.timeframe_minutes * 60 * 1000) = op.arg.index

\* a time in the second half of a bucket that is not the first, and the start of a
\* bucket of a 2-minute timeframe
C16_Witness ==
    /\ op.name = "get_candle_index"
    /\ op.arg.timeframe_minutes = 2
    /\ op.arg.time_ms = 3 * MsPerMinute + ClockStep
    /\ op.result = 1

(***************************************************************************)
(* C18 as claimed: every candle generate_deterministic_candle or           *)
(* generate_partial_candle returns has low <= min(open, close) and         *)
(* max(open, close) <= high, whatever the arguments.                       *)
(***************************************************************************)
C18_GeneratedOhlcOrdered ==
    op.name \in {"generate_deterministic_candle", "generate_partial_candle"} =>
        /\ op.result.low <= Min(op.result.open, op.result.close)
        /\ Max(op.result.open, op.result.close) <= op.result.high

(***************************************************************************)
(* C19: generate_series with count N returns N candles; candle i starts at *)
(* start_time_ms + i * timeframe_ms and is generate_deterministic_candle   *)
(* at index i from the close of candle i - 1 (initial_price for i = 0);    *)
(* the result is a prefix of the result for every count M >= N, and the    *)
(* open of candle i + 1 is the close of candle i.                          *)
(***************************************************************************)
C19_SeriesIsChainedCandles ==
    op.name = "generate_series" =>
        LET k == op.key
            a == op.arg
            r == op.result
            timeframe_ms == k.timeframe_minutes * 60 * 1000
        IN  /\ Len(r) = a.count
            /\ \A n \in 1..a.count :
                  LET i == n - 1
                      prev_close == IF i = 0 THEN a.prev_close ELSE r[i].close
                  IN  /\ r[n].start_time_ms = a.start_time_ms + i * timeframe_ms
                      /\ r[n] = generate_deterministic_candle(k, i, prev_close,
                                    a.volatility, k.timeframe_minutes, a.price_decimals,
                                    a.start_time_ms + i * timeframe_ms)
                      /\ i > 0 => r[n].open = r[i].close
            /\ \A m \in a.count..(MaxCount + 1) :
                  SubSeq(generate_series(k.symbol, k.timeframe_minutes, k.version,
                             a.start_time_ms, m, a.prev_close, a.volatility,
                             a.price_decimals), 1, a.count) = r

\* a series of three candles whose closes differ from one another and from initial_price
C19_Witness ==
    /\ op.name = "generate_series"
    /\ op.arg.count = 3
    /\ Len(op.result) = 3
    /\ op.result[1].close # op.arg.prev_close
    /\ op.result[2].close # op.result[1].close
    /\ op.result[3].close # op.result[2].close
    /\ op.result[3].open = op.result[2].close

(***************************************************************************)
(* SpecApi: GET /api/ohlc (app.py, api_ohlc) served while the scheduler    *)
(* ticks.  The handler is one step; it tracks the key, reads the saved     *)
(* candles or synthesizes a series, and adds the forming candle.           *)
(***************************************************************************)
NonePartial == <<>>   \* partial = None

\* the response of api_ohlc and the tracked_symbols it leaves
api_ohlc(ts, k, count, include_partial, initial_price, server_time_ms, table, ptable) ==
    LET tracked == track_symbol(ts, k, MkParams(initial_price, 20, 5), server_time_ms, table)
        saved_candles == get_candles(table, k, count, NoneTime)
        timeframe_ms == k.timeframe_minutes * 60 * 1000
        start_time_ms == server_time_ms - (count * k.timeframe_minutes * 60 * 1000)
        series == generate_series(k.symbol, k.timeframe_minutes, k.version, start_time_ms,
                                  count, initial_price, 20, 5)
        last_saved == get_latest_candle(table, k)
        candles_data == IF saved_candles # <<>> THEN saved_candles
                        ELSE [i \in 1..Len(series) |-> to_dict(series[i])]
        prev_close == IF saved_candles # <<>>
                      THEN (IF last_saved # NoneRow THEN last_saved.close ELSE initial_price)
                      ELSE (IF series # <<>> THEN series[Len(series)].close
                            ELSE initial_price)
        current_index == get_candle_index(server_time_ms, k.timeframe_minutes)
        current_candle_start_ms == get_candle_start_time(current_index, k.timeframe_minutes)
        saved_partial == get_partial_candle(ptable, k)
        partial ==
            IF include_partial /\ candles_data # <<>>
               /\ current_candle_start_ms > candles_data[Len(candles_data)].start_time_ms
            THEN IF saved_partial # NoneRow
                    /\ saved_partial.start_time_ms = current_candle_start_ms
                 THEN saved_partial
                 ELSE to_dict(generate_partial_candle(k, current_index, prev_close,
                                  current_candle_start_ms, server_time_ms, timeframe_ms, 20,
                                  k.timeframe_minutes, 5))
            ELSE NonePartial
    IN  [ts |-> tracked.ts, candles |-> candles_data, partial |-> partial,
         fromDatabase |-> Len(saved_candles) > 0]

\* a request at the current time; the model's clock starts at 0, so the request asks
\* for no more candles than buckets have passed
ApiOhlc(k, count, include_partial, initial_price) ==
    /\ count * k.timeframe_minutes * 60 * 1000 <= now
    /\ LET r == api_ohlc(tracked_symbols, k, count, include_partial, initial_price, now,
                         candles, partial_candles)
       IN  /\ tracked_symbols' = r.ts
           /\ tracked0' = IF IsTracked(tracked_symbols, k) THEN tracked0
                          ELSE Append(tracked0, get_candle_index(now, k.timeframe_minutes))
           /\ op' = MkOp("api_ohlc", k, MkGenArg(0, initial_price, 20, 5, 0, now, count),
                         [candles |-> r.candles, partial |-> r.partial,
                          fromDatabase |-> r.fromDatabase], {})
    /\ UNCHANGED <<histVars, userVars, genVars, now, storeVars, sched, tick0, faults, raceVars, loopVars>>

NextApi ==
    \/ \E count \in 0..MaxBuckets, include_partial \in BOOLEAN :
          ApiOhlc(K1, count, include_partial, 1005)
    \/ TickBegin
    \/ TickSaveCandle
    \/ TickDeletePartial
    \/ TickAdvance
    \/ TickSavePartial
    \/ TickEnd
    \/ ClockForward

SpecApi == InitShared /\ [][NextApi]_vars

(***************************************************************************)
(* The OHLC endpoint read by read: every store call of the handler opens   *)
(* its own connection, and the scheduler thread may run between them.      *)
(***************************************************************************)
\* server_time_ms = int(time.time() * 1000); auto_saver.track_symbol(...)
QueryBegin(k, count, include_partial, initial_price) ==
    /\ query.pc = "idle"
    /\ count * k.timeframe_minutes * 60 * 1000 <= now
    /\ LET r == track_symbol(tracked_symbols, k, MkParams(initial_price, 20, 5), now,
                             candles)
       IN  /\ tracked_symbols' = r.ts
           /\ tracked0' = IF IsTracked(tracked_symbols, k) THEN tracked0
                          ELSE Append(tracked0, get_candle_index(now, k.timeframe_minutes))
    /\ query' = [QueryIdle EXCEPT !.pc = "candles", !.key = k, !.count = count,
                                  !.include_partial = include_partial,
                                  !.initial_price = initial_price,
                                  !.server_time_ms = now]
    /\ op' = InternalOp("api_ohlc", {"get_latest_candle"})
    /\ UNCHANGED <<histVars, userVars, genVars, now, storeVars, sched, tick0, faults,
                   callers, handlers, loopVars>>

\* saved_candles = get_candles(...); without saved candles the series is generated
QueryGetCandles ==
    /\ query.pc = "candles"
    /\ LET k == query.key
           saved_candles == get_candles(candles, k, query.count, NoneTime)
           start_time_ms == query.server_time_ms
                               - (query.count * k.timeframe_minutes * 60 * 1000)
           series == generate_series(k.symbol, k.timeframe_minutes, k.version,
                                     start_time_ms, query.count, query.initial_price, 20, 5)
       IN  query' = IF saved_candles # <<>>
                    THEN [query EXCEPT !.pc = "latest", !.candles_data = saved_candles,
                                       !.fromDatabase = TRUE]
                    ELSE [query EXCEPT !.pc = "partial",
                             !.candles_data = [i \in 1..Len(series) |-> to_dict(series[i])],
                             !.prev_close = IF series # <<>> THEN series[Len(series)].close
                                            ELSE query.initial_price]
    /\ op' = InternalOp("api_ohlc", {"get_candles"})
    /\ UNCHANGED <<histVars, userVars, genVars, now, storeVars, schedVars, callers,
                   handlers, loopVars>>

\* last_saved = get_latest_candle(...); prev_close = last_saved['close']
QueryGetLatest ==
    /\ query.pc = "latest"
    /\ LET last_saved == get_latest_candle(candles, query.key)
       IN  query' = [query EXCEPT !.pc = "partial",
                        !.prev_close = IF last_saved # NoneRow THEN last_saved.close
                                       ELSE query.initial_price]
    /\ op' = InternalOp("api_ohlc", {"get_latest_candle"})
    /\ UNCHANGED <<histVars, userVars, genVars, now, storeVars, schedVars, callers,
                   handlers, loopVars>>

\* the partial of the response (the saved one or a generated one) and the response
QueryPartial ==
    /\ query.pc = "partial"
    /\ LET k == query.key
           candles_data == query.candles_data
           timeframe_ms == k.timeframe_minutes * 60 * 1000
           current_index == get_candle_index(query.server_time_ms, k.timeframe_minutes)
           current_candle_start_ms ==
               get_candle_start_time(current_index, k.timeframe_minutes)
           saved_partial == get_partial_candle(partial_candles, k)
           partial ==
               IF query.include_partial /\ candles_data # <<>>
                  /\ current_candle_start_ms
                        > candles_data[Len(candles_data)].start_time_ms
               THEN IF saved_partial # NoneRow
                       /\ saved_partial.start_time_ms = current_candle_start_ms
                    THEN saved_partial
                    ELSE to_dict(generate_partial_candle(k, current_index,
                             query.prev_close, current_candle_start_ms,
                             query.server_time_ms, timeframe_ms, 20,
                             k.timeframe_minutes, 5))
               ELSE NonePartial
       IN  op' = MkOp("api_ohlc", k,
                      MkGenArg(0, query.initial_price, 20, 5, 0, query.server_time_ms,
                               query.count),
                      [candles |-> candles_data, partial |-> partial,
                       fromDatabase |-> query.fromDatabase], {})
    /\ query' = QueryIdle
    /\ UNCHANGED <<histVars, userVars, genVars, now, storeVars, schedVars, callers,
                   handlers, loopVars>>

\* one request thread against the scheduler thread
NextOhlcRace ==
    \/ \E count \in 1..MaxBuckets, include_partial \in BOOLEAN :
          QueryBegin(K1, count, include_partial, 1005)
    \/ QueryGetCandles
    \/ QueryGetLatest
    \/ QueryPartial
    \/ TickBegin
    \/ TickSaveCandle
    \/ TickDeletePartial
    \/ TickAdvance
    \/ TickSavePartial
    \/ TickEnd
    \/ ClockForward

SpecOhlcRace == InitShared /\ [][NextOhlcRace]_vars

(***************************************************************************)
(* The count parameter of the OHLC query (app.py).  A query string value   *)
(* is a sequence of characters; request.args is the set of the             *)
(* <<name, value>> pairs the client sent.  The default of 500 and the cap  *)
(* of 5000 are scaled to DefaultCount and CountCap, so that a store can    *)
(* hold more rows than the cap; only their order, DefaultCount < CountCap, *)
(* and the order of count, cap and number of rows matter to the handler.   *)
(***************************************************************************)
DefaultCount == 2
CountCap == 3

\* request.args.get(name, default)
args_get(args, name, default) ==
    IF \E a \in args : a[1] = name
    THEN (CHOOSE a \in args : a[1] = name)[2]
    ELSE default

IsDigit(ch) == ch \in {"0", "1", "2", "3", "4", "5", "6", "7", "8", "9"}
DigitValue(ch) ==
    CASE ch = "0" -> 0 [] ch = "1" -> 1 [] ch = "2" -> 2 [] ch = "3" -> 3 [] ch = "4" -> 4
      [] ch = "5" -> 5 [] ch = "6" -> 6 [] ch = "7" -> 7 [] ch = "8" -> 8 [] OTHER -> 9

RECURSIVE DigitsValue(_)
DigitsValue(digits) ==
    IF digits = <<>> THEN 0
    ELSE 10 * DigitsValue(SubSeq(digits, 1, Len(digits) - 1))
            + DigitValue(digits[Len(digits)])

\* int(string) for a string without blanks or underscores: an optional sign and at
\* least one digit, anything else raises ValueError (ok = FALSE)
int_of(string) ==
    LET signed == string # <<>> /\ string[1] \in {"+", "-"}
        digits == IF signed THEN Tail(string) ELSE string
        ok == digits # <<>> /\ \A i \in 1..Len(digits) : IsDigit(digits[i])
    IN  [ok |-> ok,
         value |-> IF ~ok THEN 0
                   ELSE IF string[1] = "-" THEN 0 - DigitsValue(digits)
                   ELSE DigitsValue(digits)]

\* count_param = request.args.get('count', '500');
\* try: count = min(int(count_param), 5000)  except ValueError: count = 500
parse_count(args) ==
    LET parsed == int_of(args_get(args, "count", <<ToString(DefaultCount)>>))
    IN  IF parsed.ok THEN Min(parsed.value, CountCap) ELSE DefaultCount

\* mutant: the handler persists the forming candle it answers with
ApiOhlcQuery_persisting_partial(k, args, include_partial, initial_price) ==
    LET count == parse_count(args)
        r == api_ohlc(tracked_symbols, k, count, include_partial, initial_price, now,
                      candles, partial_candles)
    IN  /\ tracked_symbols' = r.ts
        /\ tracked0' = IF IsTracked(tracked_symbols, k) THEN tracked0
                       ELSE Append(tracked0, get_candle_index(now, k.timeframe_minutes))
        /\ partial_candles' = IF r.partial = NonePartial THEN partial_candles
                              ELSE save_partial_candle(partial_candles, k, r.partial).db
        /\ op' = MkOp("api_ohlc_query", k,
                      [args |-> args, include_partial |-> include_partial,
                       initial_price |-> initial_price, server_time_ms |-> now],
                      [candles |-> r.candles, partial |-> r.partial,
                       fromDatabase |-> r.fromDatabase], {})
        /\ UNCHANGED <<histVars, userVars, genVars, now, candles, sched, tick0, faults, raceVars, loopVars>>

\* the OHLC query of a client: the count is parsed, then the handler answers
ApiOhlcQuery(k, args, include_partial, initial_price) ==
    LET count == parse_count(args)
        r == api_ohlc(tracked_symbols, k, count, include_partial, initial_price, now,
                      candles, partial_candles)
    IN  /\ tracked_symbols' = r.ts
        /\ tracked0' = IF IsTracked(tracked_symbols, k) THEN tracked0
                       ELSE Append(tracked0, get_candle_index(now, k.timeframe_minutes))
        /\ op' = MkOp("api_ohlc_query", k,
                      [args |-> args, include_partial |-> include_partial,
                       initial_price |-> initial_price, server_time_ms |-> now],
                      [candles |-> r.candles, partial |-> r.partial,
                       fromDatabase |-> r.fromDatabase], {})
        /\ UNCHANGED <<histVars, userVars, genVars, now, storeVars, sched, tick0, faults, raceVars, loopVars>>

\* the values of count a client sends: none, the empty string, text, a decimal
\* fraction, a negative number, and the numbers from 0 to above the cap
CountStrings ==
    {<<>>, <<"a", "b", "c">>, <<"1", ".", "5">>, <<"-", "1">>, <<"1", "0">>}
        \cup {<<ToString(n)>> : n \in 0..(CountCap + 1)}
CountArgs == {{}} \cup {{<<"count", string>>} : string \in CountStrings}
\* the start times of the completed candles a populated store holds: one more than the cap
CountStarts == {get_candle_start_time(i, 1) : i \in 0..CountCap}

NextCount ==
    \/ \E st \in CountStarts : SaveCandle(K1, Payload(st, 1))
    \/ \E args \in CountArgs, include_partial \in BOOLEAN :
          ApiOhlcQuery(K1, args, include_partial, 1005)
    \/ ClockForward

SpecCount == InitShared /\ [][NextCount]_vars

\* readers and writers of one key: callers fill and empty the store while clients
\* query it and callers read it
ReaderArgs == {{}, {<<"count", <<"1">>>>}, {<<"count", <<"-", "1">>>>}}

NextReaders ==
    \/ \E st \in StoreStarts : SaveCandle(K1, Payload(st, 1))
    \/ SavePartialCandle(K1, [Payload(MsPerMinute, 2) EXCEPT !.is_partial = TRUE])
    \/ DeleteCandles(K1)
    \/ \E args \in ReaderArgs, include_partial \in BOOLEAN :
          ApiOhlcQuery(K1, args, include_partial, 1005)
    \/ \E n \in Counts, e \in EndTimes : GetCandles(K1, n, e)
    \/ GetLatestCandle(K1)
    \/ GetPartialCandle(K1)
    \/ ClockForward

SpecReaders == InitShared /\ [][NextReaders]_vars

(***************************************************************************)
(* Trading helpers (trading.py): open_trade on the user dict.              *)
(***************************************************************************)
MAX_TRANSACTIONS == 2   \* stands for 200: the log is cut to its newest entries
MaxTrades == 3          \* trades a user opens in a behaviour

NoAsset == [id |-> "", payout |-> 0]
\* assets.find_asset: the payload of a listed asset, None (NoAsset) otherwise
find_asset(asset_id) ==
    IF asset_id = "OTC-AAPL" THEN [id |-> "OTC-AAPL", payout |-> 81] ELSE NoAsset

\* direction.lower() on the directions the callers pass
direction_lower(direction) ==
    CASE direction = "BUY" -> "buy" [] direction = "CALL" -> "call"
      [] direction = "PUT" -> "put" [] direction = "SELL" -> "sell"
      [] direction = "UP" -> "up" [] OTHER -> direction

\* transactions.insert(0, entry); user["transactions"] = transactions[:MAX_TRANSACTIONS]
log_transaction(transactions, entry) ==
    SubSeq(<<entry>> \o transactions, 1, Min(Len(transactions) + 1, MAX_TRANSACTIONS))

NoTrade == [id |-> 0, asset |-> "", direction |-> "", amount |-> NaN,
            payout_percent |-> 0, opened_at |-> 0, expires_at |-> 0]

\* open_trade: the exception raised ("" for none), the user afterwards, the trade
open_trade(u, asset_id, direction, amount, trade_id, opened_at, duration_seconds) ==
    LET asset == find_asset(asset_id)
        lowered == direction_lower(direction)
        normalized_direction == IF lowered \in {"buy", "call"} THEN "buy" ELSE "sell"
        amount_value == round2(amount)
        available_balance == u.balance
        trade == [id |-> trade_id, asset |-> asset.id, direction |-> normalized_direction,
                  amount |-> amount_value, payout_percent |-> asset.payout,
                  opened_at |-> opened_at,
                  expires_at |-> opened_at + duration_seconds * 1000]
        entry == [type |-> "trade_open", trade_id |-> trade_id, asset |-> trade.asset,
                  direction |-> normalized_direction, amount |-> amount_value,
                  net |-> round2(float_neg(amount_value)),
                  payout_percent |-> asset.payout, created_at |-> opened_at]
        raise(message) == [raised |-> "ValueError", message |-> message, user |-> u,
                           trade |-> NoTrade]
    IN  IF asset = NoAsset THEN raise("Asset not found")
        ELSE IF lowered \notin {"buy", "sell", "call", "put"}
        THEN raise("Direction must be CALL/PUT")
        ELSE IF float_le_zero(amount_value) THEN raise("Trade amount must be positive")
        ELSE IF float_gt(amount_value, available_balance) THEN raise("Insufficient balance")
        ELSE [raised |-> "", message |-> "",
              user |-> [u EXCEPT
                          !.balance = round2(float_sub(available_balance, amount_value)),
                          !.active_trades = <<trade>> \o @,
                          !.transactions = log_transaction(@, entry)],
              trade |-> trade]

\* a caller opens a trade; uuid4 gives an id no earlier trade has
OpenTrade(asset_id, direction, amount, duration_seconds) ==
    /\ trade_seq < MaxTrades
    /\ LET r == open_trade(user, asset_id, direction, amount,
                           trade_seq + 1, now, duration_seconds)
       IN  /\ user' = r.user
           /\ trade_seq' = IF r.raised = "" THEN trade_seq + 1 ELSE trade_seq
           /\ op' = MkOp("open_trade", NoKey,
                         [asset_id |-> asset_id, direction |-> direction,
                          amount |-> amount],
                         [raised |-> r.raised, message |-> r.message, trade |-> r.trade],
                         {})
    /\ UNCHANGED <<histVars, genVars, now, storeVars, schedVars, raceVars, loopVars,
                   resolvers>>

\* amounts: NaN, negative, zero, below half a cent, whole cents, and just above and
\* just below a whole-cent balance
TradeAmounts ==
    {NaN, Num(0 - 5000), Num(0), Num(4), Num(10000), Num(50000), Num(100000),
     Num(100004), Num(100006), Num(200000)}
TradeDirections == {"buy", "CALL", "put", "up"}
TradeAssets == {"OTC-AAPL", "OTC-NONE"}

NextTrading ==
    \E asset_id \in TradeAssets, direction \in TradeDirections, amount \in TradeAmounts :
        OpenTrade(asset_id, direction, amount, 300)

SpecTrading == InitShared /\ [][NextTrading]_vars

(***************************************************************************)
(* Trade resolution (trading.py): resolve_active_trades on the user dict.  *)
(* random.random() < WIN_PROBABILITY is an input: the set wins of the ids  *)
(* of the trades that win.  Times are in ms; iso() keeps whole seconds,    *)
(* which all times of the model are.                                       *)
(***************************************************************************)
MAX_HISTORY == 2        \* stands for 200: the history is cut to its newest entries

float_add(x, y) == IF x.nan \/ y.nan THEN NaN ELSE Num(x.mills + y.mills)

\* the profit cut to whole cents instead of rounded
payout_profit_truncated(amount, payout_percent) ==
    IF amount.nan THEN NaN ELSE Num(((amount.mills * payout_percent) \div 1000) * 10)

\* round(amount * payout_percent / 100, 2)
payout_profit(amount, payout_percent) ==
    IF amount.nan THEN NaN
    ELSE Num(RoundHalfEven(amount.mills * payout_percent, 1000) * 10)

\* the body of the loop for one expired trade: the user afterwards and the
\* entry appended to resolved
resolve_trade(u, trade, is_win, current_time) ==
    LET amount == trade.amount
        payout_percent == trade.payout_percent
        profit == IF is_win THEN payout_profit(amount, payout_percent) ELSE Num(0)
        net_result == round2(IF is_win THEN profit ELSE float_neg(amount))
        result == IF is_win THEN "win" ELSE "loss"
        balance == IF is_win
                   THEN round2(float_add(float_add(u.balance, amount), profit))
                   ELSE u.balance
        history_entry == [id |-> trade.id, asset |-> trade.asset,
                          direction |-> trade.direction, amount |-> round2(amount),
                          payout_percent |-> payout_percent, result |-> result,
                          net |-> net_result, closed_at |-> current_time]
        entry == [type |-> IF is_win THEN "trade_win" ELSE "trade_loss",
                  trade_id |-> trade.id, asset |-> trade.asset,
                  direction |-> trade.direction, amount |-> round2(amount),
                  net |-> net_result, payout_percent |-> payout_percent,
                  created_at |-> current_time]
    IN  [user |-> [u EXCEPT
                     !.balance = balance,
                     !.history = SubSeq(<<history_entry>> \o @, 1,
                                        Min(Len(@) + 1, MAX_HISTORY)),
                     !.transactions = log_transaction(@, entry)],
         resolved |-> [id |-> trade.id, asset |-> trade.asset,
                       amount |-> round2(amount), payout_percent |-> payout_percent,
                       result |-> result, net |-> net_result,
                       closed_at |-> current_time]]

\* the for loop over the copy of active_trades; st holds user, remaining, resolved
RECURSIVE resolve_loop(_, _, _, _)
resolve_loop(st, active_trades, current_time, wins) ==
    IF active_trades = <<>> THEN st
    ELSE LET trade == Head(active_trades)
         IN  IF trade.expires_at > current_time
             THEN resolve_loop([st EXCEPT !.remaining = Append(@, trade)],
                               Tail(active_trades), current_time, wins)
             ELSE LET r == resolve_trade(st.user, trade, trade.id \in wins, current_time)
                  IN  resolve_loop([st EXCEPT !.user = r.user,
                                              !.resolved = Append(@, r.resolved)],
                                   Tail(active_trades), current_time, wins)

\* resolve_active_trades(user): the user afterwards and the returned list
resolve_active_trades(u, current_time, wins) ==
    IF u.active_trades = <<>> THEN [user |-> u, resolved |-> <<>>]
    ELSE LET st == resolve_loop([user |-> u, remaining |-> <<>>, resolved |-> <<>>],
                                u.active_trades, current_time, wins)
         IN  [user |-> [st.user EXCEPT !.active_trades = st.remaining],
              resolved |-> st.resolved]

ResolveOp(current_time, resolved) ==
    MkOp("resolve_active_trades", NoKey, [current_time |-> current_time],
         [resolved |-> resolved], {})

\* one thread runs resolve_active_trades from its first line to its return
ResolveActiveTrades(wins) ==
    /\ LET r == resolve_active_trades(user, now, wins)
       IN  /\ user' = r.user
           /\ op' = ResolveOp(now, r.resolved)
    /\ UNCHANGED <<histVars, genVars, now, storeVars, schedVars, raceVars, loopVars,
                   trade_seq, resolvers>>

\* the calls of one user's session in its first minute: stakes of 33.33 and NaN,
\* expiring after 30 seconds
ResolveAmounts == {Num(33330), NaN}
ResolveDuration == 30
TradeIds == 1..MaxTrades

NextResolve ==
    \/ \E amount \in ResolveAmounts :
          OpenTrade("OTC-AAPL", "buy", amount, ResolveDuration)
    \/ \E wins \in SUBSET TradeIds : ResolveActiveTrades(wins)
    \/ now < MsPerMinute /\ ClockForward

SpecResolve == InitShared /\ [][NextResolve]_vars

(***************************************************************************)
(* resolve_active_trades called by two threads on one user dict: the       *)
(* TradeResolver loop (worker.py) and a request (_ensure_session_user).    *)
(* Neither takes a lock.  A thread's steps: copy the list and read the     *)
(* clock; one pass of the loop per trade of the copy; assign remaining.    *)
(***************************************************************************)
MaxRaceTrades == 2      \* trades opened while two threads resolve

ResolveBegin(t) ==
    /\ resolvers[t].pc = "idle"
    /\ IF user.active_trades = <<>>
       THEN /\ op' = ResolveOp(now, <<>>)
            /\ UNCHANGED resolvers
       ELSE /\ resolvers' = [resolvers EXCEPT ![t] =
                   [pc |-> "loop", active_trades |-> user.active_trades,
                    remaining |-> <<>>, resolved |-> <<>>, current_time |-> now,
                    i |-> 1]]
            /\ op' = InternalOp("resolve_active_trades", {})
    /\ UNCHANGED <<histVars, genVars, now, storeVars, schedVars, raceVars, loopVars,
                   user, trade_seq>>

ResolveTrade(t, is_win) ==
    /\ resolvers[t].pc = "loop"
    /\ resolvers[t].i <= Len(resolvers[t].active_trades)
    /\ LET me == resolvers[t]
           trade == me.active_trades[me.i]
           r == resolve_trade(user, trade, is_win, me.current_time)
       IN  IF trade.expires_at > me.current_time
           THEN /\ ~is_win
                /\ resolvers' = [resolvers EXCEPT ![t].remaining = Append(@, trade),
                                                  ![t].i = @ + 1]
                /\ UNCHANGED user
           ELSE /\ user' = r.user
                /\ resolvers' = [resolvers EXCEPT ![t].resolved = Append(@, r.resolved),
                                                  ![t].i = @ + 1]
    /\ op' = InternalOp("resolve_active_trades", {})
    /\ UNCHANGED <<histVars, genVars, now, storeVars, schedVars, raceVars, loopVars,
                   trade_seq>>

ResolveEnd(t) ==
    /\ resolvers[t].pc = "loop"
    /\ resolvers[t].i > Len(resolvers[t].active_trades)
    /\ user' = [user EXCEPT !.active_trades = resolvers[t].remaining]
    /\ op' = ResolveOp(resolvers[t].current_time, resolvers[t].resolved)
    /\ resolvers' = [resolvers EXCEPT ![t] = ResolverIdle]
    /\ UNCHANGED <<histVars, genVars, now, storeVars, schedVars, raceVars, loopVars,
                   trade_seq>>

\* a request opens a trade after its own _ensure_session_user has returned
NextResolveRace ==
    \/ /\ resolvers["handler"].pc = "idle"
       /\ trade_seq < MaxRaceTrades
       /\ OpenTrade("OTC-AAPL", "buy", Num(10000), ResolveDuration)
    \/ \E t \in ResolverThreads : ResolveBegin(t)
    \/ \E t \in ResolverThreads, is_win \in BOOLEAN : ResolveTrade(t, is_win)
    \/ \E t \in ResolverThreads : ResolveEnd(t)
    \/ now < MsPerMinute /\ ClockForward

SpecResolveRace == InitShared /\ [][NextResolveRace]_vars

(***************************************************************************)
(* Chart snapshot surface (chart_service.py): get_otc_chart parses the     *)
(* timeframe string, a sequence of characters (None is falsy like the      *)
(* empty string, and is passed as the empty sequence), and hands           *)
(* interval_seconds and points to ChartStream.snapshot.                    *)
(***************************************************************************)
\* str.lower() on the letters the inputs contain
lower(string) ==
    [i \in 1..Len(string) |->
        CASE string[i] = "S" -> "s" [] string[i] = "M" -> "m" [] string[i] = "H" -> "h"
          [] string[i] = "X" -> "x" [] OTHER -> string[i]]

\* tf.endswith(suffix) for a one-character suffix
endswith(string, suffix) == string # <<>> /\ string[Len(string)] = suffix

\* tf[:-1]
but_last(string) == SubSeq(string, 1, Len(string) - 1)

\* mutant: the hour branch falling back to 60 like the other two
get_otc_chart_flat_default(asset_found, timeframe, points) ==
    LET tf == lower(IF timeframe # <<>> THEN timeframe ELSE <<"1", "m">>)
        n == int_of(but_last(tf))
        interval_seconds ==
            IF endswith(tf, "m") THEN (IF n.ok THEN Max(n.value * 60, 5) ELSE 60)
            ELSE IF endswith(tf, "s") THEN (IF n.ok THEN Max(n.value, 5) ELSE 60)
            ELSE IF endswith(tf, "h") THEN (IF n.ok THEN Max(n.value * 3600, 60) ELSE 60)
            ELSE 60
    IN  IF ~asset_found THEN [raised |-> "ValueError", interval_seconds |-> 0, points |-> 0]
        ELSE [raised |-> "", interval_seconds |-> interval_seconds,
              points |-> Max(points, 20)]

\* get_otc_chart: what it hands to snapshot, which raises ValueError("Asset not
\* found") for an asset find_asset does not know
get_otc_chart(asset_found, timeframe, points) ==
    LET tf == lower(IF timeframe # <<>> THEN timeframe ELSE <<"1", "m">>)
        n == int_of(but_last(tf))
        interval_seconds ==
            IF endswith(tf, "m") THEN (IF n.ok THEN Max(n.value * 60, 5) ELSE 60)
            ELSE IF endswith(tf, "s") THEN (IF n.ok THEN Max(n.value, 5) ELSE 60)
            ELSE IF endswith(tf, "h") THEN (IF n.ok THEN Max(n.value * 3600, 60) ELSE 3600)
            ELSE 60
    IN  IF ~asset_found THEN [raised |-> "ValueError", interval_seconds |-> 0, points |-> 0]
        ELSE [raised |-> "", interval_seconds |-> interval_seconds,
              points |-> Max(points, 20)]

\* one call per behaviour, with arguments of the caller's choice
GetOtcChart(asset_found, timeframe, points) ==
    /\ op.name = "init"
    /\ op' = MkOp("get_otc_chart", NoKey,
                  [asset_found |-> asset_found, timeframe |-> timeframe, points |-> points],
                  get_otc_chart(asset_found, timeframe, points), {})
    /\ UNCHANGED <<histVars, userVars, genVars, now, storeVars, schedVars, raceVars, loopVars>>

\* numeric parts: none, zero, below and above each minimum, signed, and unparsable ones
ChartNumbers ==
    {<<>>, <<"0">>, <<"1">>, <<"4">>, <<"5">>, <<"6">>, <<"3", "0">>, <<"-", "1">>,
     <<"+", "2">>, <<"x">>, <<"1", ".", "5">>, <<"-">>}
ChartSuffixes == {<<>>, <<"s">>, <<"m">>, <<"h">>, <<"S">>, <<"M">>, <<"H">>, <<"d">>}
ChartTimeframes == {number \o suffix : number \in ChartNumbers, suffix \in ChartSuffixes}
ChartPoints == {10, 20, 120}

NextChart ==
    \E asset_found \in BOOLEAN, timeframe \in ChartTimeframes, points \in ChartPoints :
        GetOtcChart(asset_found, timeframe, points)

SpecChart == InitShared /\ [][NextChart]_vars

(***************************************************************************)
(* C17 as claimed: every candle the system produces for a timeframe has    *)
(* start_time_ms divisible by timeframe_minutes * 60000: the completed and *)
(* partial rows the scheduler writes, and the candles and the partial of   *)
(* an OHLC response, read from the store or synthesized.                   *)
(***************************************************************************)
C17_StartTimesAligned ==
    /\ \A r \in BagToSet(candles) \cup BagToSet(partial_candles) :
          r.start_time_ms % (r.timeframe_minutes * 60 * 1000) = 0
    /\ op.name = "api_ohlc" =>
          LET timeframe_ms == op.key.timeframe_minutes * 60 * 1000
          IN  /\ \A i \in 1..Len(op.result.candles) :
                    op.result.candles[i].start_time_ms % timeframe_ms = 0
              /\ op.result.partial # NonePartial =>
                    op.result.partial.start_time_ms % timeframe_ms = 0

(***************************************************************************)
(* SpecGenThreads: generate_deterministic_candle called by several threads *)
(* at the same time (the scheduler thread and request threads).  A call    *)
(* creates its three RNG instances one after the other and draws from      *)
(* each; creating an instance and drawing from one are one step each, so   *)
(* the calls interleave at every draw.  volatility 0.02, price_decimals 3. *)
(***************************************************************************)
Generators == 1..MaxGenerators

\* "", "|intraday", "|volume": the seed suffix of the call's 1st, 2nd, 3rd instance
StreamSuffix(stream) ==
    CASE stream = 1 -> "" [] stream = 2 -> "|intraday" [] OTHER -> "|volume"

\* draws a call has made when it is done with its instance number stream:
\* gaussian() once, gaussian() twice, rng() once
DrawsAfter(stream) == CASE stream = 1 -> 2 [] stream = 2 -> 6 [] OTHER -> 7

\* the call begins
GenCall(g, seed_base, index, prev_close) ==
    /\ gens[g].pc = "idle"
    /\ gens' = [gens EXCEPT ![g] = [pc |-> "seed", seed_base |-> seed_base,
                                    index |-> index, prev_close |-> prev_close,
                                    stream |-> 1, rng |-> 0, draws |-> <<>>]]
    /\ UNCHANGED <<histVars, userVars, rngs, prng, now, storeVars, op, schedVars, raceVars, loopVars>>

\* close_rng / intraday_rng / volume_rng = create_seeded_rng(...)
GenSeed(g) ==
    /\ gens[g].pc = "seed"
    /\ LET r == create_seeded_rng(rngs, g, SeedString(gens[g].seed_base, gens[g].index,
                                                      StreamSuffix(gens[g].stream)))
       IN  /\ rngs' = r.heap
           /\ gens' = [gens EXCEPT ![g].rng = r.rng, ![g].pc = "draw"]
    /\ UNCHANGED <<histVars, userVars, prng, now, storeVars, op, schedVars, raceVars, loopVars>>

\* one call of the instance inside gaussian(), or volume_rng()
GenDraw(g) ==
    /\ gens[g].pc = "draw"
    /\ LET r == rng_call(rngs, gens[g].rng)
           draws == Append(gens[g].draws, r.u)
           done == Len(draws) = DrawsAfter(gens[g].stream)
       IN  /\ rngs' = r.heap
           /\ gens' = [gens EXCEPT
                         ![g].draws = draws,
                         ![g].stream = IF done THEN gens[g].stream + 1 ELSE gens[g].stream,
                         ![g].pc = IF ~done THEN "draw"
                                   ELSE IF gens[g].stream = 3 THEN "return" ELSE "seed"]
    /\ UNCHANGED <<histVars, userVars, prng, now, storeVars, op, schedVars, raceVars, loopVars>>

\* return Candle(...)
GenReturn(g) ==
    /\ gens[g].pc = "return"
    /\ LET a == gens[g]
           start_time_ms == get_candle_start_time(a.index, a.seed_base.timeframe_minutes)
       IN  op' = MkOp("generate_deterministic_candle", a.seed_base,
                      MkGenArg(a.index, a.prev_close, 20, 3, start_time_ms, 0, 0),
                      CandleOfDraws(a.draws, a.prev_close, 20,
                                    a.seed_base.timeframe_minutes, 3, start_time_ms), {})
    /\ gens' = [gens EXCEPT ![g] = GenIdle]
    /\ UNCHANGED <<histVars, userVars, rngs, prng, now, storeVars, schedVars, raceVars, loopVars>>

NextGenThreads ==
    \/ \E g \in Generators, in \in {<<K1, 0>>, <<K1, 1>>, <<K2, 0>>} :
          GenCall(g, in[1], in[2], 1005)
    \/ \E g \in Generators : GenSeed(g)
    \/ \E g \in Generators : GenDraw(g)
    \/ \E g \in Generators : GenReturn(g)

SpecGenThreads == InitShared /\ [][NextGenThreads]_vars

(***************************************************************************)
(* C20: a call of generate_deterministic_candle returns the candle its     *)
(* arguments determine, the same for every call with those arguments,      *)
(* whatever other calls created or advanced RNG instances meanwhile, in    *)
(* the same or another thread.                                             *)
(***************************************************************************)
C20_GenerationDependsOnArgumentsOnly ==
    op.name = "generate_deterministic_candle" =>
        op.result = generate_deterministic_candle(op.key, op.arg.index, op.arg.prev_close,
                        op.arg.volatility, op.key.timeframe_minutes, op.arg.price_decimals,
                        op.arg.start_time_ms)

\* a call returned that drew from its instances while another call, with another seed,
\* had created an instance and drawn from it, and that call is still drawing
C20_Witness ==
    /\ op.name = "generate_deterministic_candle"
    /\ \E g \in Generators :
          /\ gens[g].pc = "draw"
          /\ Len(gens[g].draws) >= 3
          /\ rngs[gens[g].rng].n >= 1
          /\ <<gens[g].seed_base, gens[g].index>> # <<op.key, op.arg.index>>

(***************************************************************************)
(* C21: a partial candle generated at or after the end of its bucket       *)
(* (f = 1) has the close of the completed candle of the same seed base,    *)
(* index and prev_close; generated at or before the start of its bucket    *)
(* (f = 0) it is flat at the rounded prev_close with volume 0.             *)
(***************************************************************************)
C21_PartialContinuity ==
    op.name = "generate_partial_candle" =>
        LET a == op.arg
            timeframe_ms == op.key.timeframe_minutes * 60 * 1000
            target == generate_deterministic_candle(op.key, a.index, a.prev_close,
                          a.volatility, op.key.timeframe_minutes, a.price_decimals,
                          a.start_time_ms)
            flat == round_price(ToFine(a.prev_close), a.price_decimals)
        IN  /\ a.server_time_ms >= a.start_time_ms + timeframe_ms =>
                  op.result.close = target.close
            /\ a.server_time_ms <= a.start_time_ms =>
                  /\ op.result.open = flat /\ op.result.high = flat
                  /\ op.result.low = flat /\ op.result.close = flat
                  /\ op.result.volume = 0

\* a partial generated after the end of its bucket whose target moved away from the open
C21_Witness ==
    /\ op.name = "generate_partial_candle"
    /\ op.arg.server_time_ms > op.arg.start_time_ms + op.key.timeframe_minutes * 60 * 1000
    /\ op.result.close # op.result.open
    /\ op.result.volume >= 100

(***************************************************************************)
(* C22: the volume of a completed candle is within 100..149 and is the     *)
(* volume of every call with the same seed base and index, whatever its    *)
(* prev_close, volatility, price_decimals and start_time_ms.               *)
(***************************************************************************)
C22_VolumeDependsOnSeedAndIndexOnly ==
    op.name = "generate_deterministic_candle" =>
        /\ op.result.volume \in 100..149
        /\ \A p \in GenPrices \cup {0, 1}, v \in GenVolatilities, d \in GenDecimals,
              st \in GenStarts :
              generate_deterministic_candle(op.key, op.arg.index, p, v,
                  op.key.timeframe_minutes, d, st).volume = op.result.volume

\* a call whose close moved and whose volume is above the base volume
C22_Witness ==
    /\ op.name = "generate_deterministic_candle"
    /\ op.arg.volatility = 30
    /\ op.result.close # op.result.open
    /\ op.result.volume > 100

(***************************************************************************)
(* SpecRng: one RNG instance at full width.  create_seeded_rng hashes the  *)
(* seed string one character per step, calls seed_fn four times for the    *)
(* words a, b, c, d, and the instance is then drawn from; sfc32 may also   *)
(* be called directly with four words.  A seed string is the sequence of   *)
(* its code points.                                                         *)
(***************************************************************************)
MaxDraws == 12        \* draws from one instance

\* "", "a", "BTC|1|v1||candle|0", and a string with a code point above 0xFFFF
RngSeeds ==
    {<<>>, <<97>>,
     <<66, 84, 67, 124, 49, 124, 118, 49, 124, 124, 99, 97, 110, 100, 108, 101, 124, 48>>,
     <<128512, 120>>}

\* words at both ends of the range, for sfc32 called directly
DirectWords == {<<0, 0>>, <<Half - 1, Half - 1>>, <<Half - 1, Half - 2>>}

\* seed = xmur3(seed_string)
RngCreate(seed_string) ==
    /\ prng.pc = "none"
    /\ prng' = [NoPrng EXCEPT !.pc = "hash", !.seed = seed_string, !.h = xmur3_init]
    /\ UNCHANGED <<histVars, userVars, gens, rngs, now, storeVars, op, schedVars, raceVars, loopVars>>

\* for char in string: ...
RngHashChar ==
    /\ prng.pc = "hash"
    /\ prng' = IF prng.seed = <<>> THEN [prng EXCEPT !.pc = "seed"]
               ELSE [prng EXCEPT !.h = xmur3_char(prng.h, Head(prng.seed)),
                                 !.seed = Tail(prng.seed)]
    /\ UNCHANGED <<histVars, userVars, gens, rngs, now, storeVars, op, schedVars, raceVars, loopVars>>

\* sfc32(seed(), seed(), seed(), seed()): one seed() per step, then the state dict
RngSeedWord ==
    /\ prng.pc = "seed"
    /\ LET h == seed_fn(prng.h)
           words == Append(prng.words, h)
       IN  prng' = IF Len(words) < 4 THEN [prng EXCEPT !.h = h, !.words = words]
                   ELSE [prng EXCEPT !.h = h, !.words = words, !.pc = "ready",
                                     !.state = [a |-> words[1], b |-> words[2],
                                                c |-> words[3], d |-> words[4],
                                                t |-> <<0, 0>>],
                                     !.d0 = words[4]]
    /\ UNCHANGED <<histVars, userVars, gens, rngs, now, storeVars, op, schedVars, raceVars, loopVars>>

\* sfc32(a, b, c, d) with words already in [0, 2^32)
Sfc32Direct(a, b, c, d) ==
    /\ prng.pc = "none"
    /\ prng' = [NoPrng EXCEPT !.pc = "ready", !.d0 = d,
                              !.state = [a |-> a, b |-> b, c |-> c, d |-> d,
                                         t |-> <<0, 0>>]]
    /\ UNCHANGED <<histVars, userVars, gens, rngs, now, storeVars, op, schedVars, raceVars, loopVars>>

\* rng()
RngDraw ==
    /\ prng.pc = "ready"
    /\ prng.n < MaxDraws
    /\ prng' = [prng EXCEPT !.state = sfc32_rng(prng.state), !.n = prng.n + 1]
    /\ UNCHANGED <<histVars, userVars, gens, rngs, now, storeVars, op, schedVars, raceVars, loopVars>>

NextRng ==
    \/ \E seed_string \in RngSeeds : RngCreate(seed_string)
    \/ RngHashChar
    \/ RngSeedWord
    \/ \E a \in DirectWords, b \in DirectWords, c \in DirectWords, d \in DirectWords :
          Sfc32Direct(a, b, c, d)
    \/ RngDraw

SpecRng == InitShared /\ [][NextRng]_vars

(***************************************************************************)
(* C23: the hash accumulator h and the state words a, b, c, d stay in      *)
(* [0, 2^32) after every step; d is the initial d plus the number of draws *)
(* modulo 2^32; the t of every draw is in [0, 2^32), so t / 2^32 is in     *)
(* [0, 1).                                                                 *)
(***************************************************************************)
InRange32(w) == w[1] \in 0..(Half - 1) /\ w[2] \in 0..(Half - 1)

C23_RngWordsStayIn32Bits ==
    /\ InRange32(prng.h)
    /\ \A i \in 1..Len(prng.words) : InRange32(prng.words[i])
    /\ InRange32(prng.state.a) /\ InRange32(prng.state.b)
    /\ InRange32(prng.state.c) /\ InRange32(prng.state.d)
    /\ InRange32(prng.state.t)
    /\ prng.pc = "ready" =>
          prng.state.d = AddMask32(prng.d0, <<prng.n \div Half, prng.n % Half>>)

\* the instance of create_seeded_rng("a") after its third draw: the state words seed_fn
\* returned and the t of the third draw are those of the Python functions
C23_Witness ==
    /\ prng.pc = "ready"
    /\ prng.words = <<<<16909, 14682>>, <<9632, 40604>>, <<16572, 14772>>, <<22296, 63267>>>>
    /\ prng.n = 3
    /\ prng.state.t = <<15772, 23334>>

(***************************************************************************)
(* C24 as claimed: get_candles(key, count, end_time_ms) returns, ascending *)
(* by start_time_ms, the min(count, matching) most recent completed rows   *)
(* of the key with start_time_ms <= end_time_ms, for every end_time_ms     *)
(* that is given, 0 included; with no end_time_ms, the count most recent   *)
(* rows of the key.                                                        *)
(***************************************************************************)
C24_GetCandlesWindow ==
    op.name = "get_candles" =>
        LET count == op.arg[1]
            end_time_ms == op.arg[2]
            matching == {r \in RowsOfKey(candles, op.key) :
                            end_time_ms = NoneTime \/ r.start_time_ms <= end_time_ms}
            returned == {op.result[i] : i \in 1..Len(op.result)}
        IN  /\ Len(op.result) = Min(count, Cardinality(matching))
            /\ \A i \in 1..(Len(op.result) - 1) :
                  op.result[i].start_time_ms < op.result[i + 1].start_time_ms
            /\ \A c \in returned : \E r \in matching : RowDict(r) = c
            /\ \A r \in matching :
                  RowDict(r) \notin returned =>
                      \A c \in returned : r.start_time_ms < c.start_time_ms

(***************************************************************************)
(* C25: save_partial_candle is an upsert: after it returns True there is   *)
(* exactly one partial row for (key, candle.start_time_ms), holding the    *)
(* new open/high/low/close, and every other partial row is unchanged;      *)
(* get_partial_candle returns the partial row of the key with the greatest *)
(* start_time_ms (None without one); delete_partial_candle(key, start)     *)
(* returns True exactly when a row existed and leaves no row at            *)
(* (key, start), every other partial row unchanged.                        *)
(***************************************************************************)
OtherRowsUnchanged(before, after, k, start_time_ms) ==
    \A r \in (BagToSet(before) \cup BagToSet(after)) \ 
            (RowsAt(before, k, start_time_ms) \cup RowsAt(after, k, start_time_ms)) :
        CopiesIn(r, after) = CopiesIn(r, before)

C25_UpsertStep ==
    (op'.name = "save_partial_candle" /\ op'.result = TRUE) =>
        /\ CountAt(partial_candles', op'.key, op'.arg.start_time_ms) = 1
        /\ \A r \in RowsAt(partial_candles', op'.key, op'.arg.start_time_ms) :
              /\ r.open = op'.arg.open /\ r.high = op'.arg.high
              /\ r.low = op'.arg.low /\ r.close = op'.arg.close
        /\ OtherRowsUnchanged(partial_candles, partial_candles', op'.key,
                              op'.arg.start_time_ms)

C25_GetStep ==
    op'.name = "get_partial_candle" =>
        LET S == RowsOfKey(partial_candles, op'.key)
        IN  IF S = {} THEN op'.result = NoneRow
            ELSE \E r \in S :
                    /\ \A q \in S : q.start_time_ms <= r.start_time_ms
                    /\ op'.result = RowDict(r)

C25_DeleteStep ==
    op'.name = "delete_partial_candle" =>
        /\ op'.result = (RowsAt(partial_candles, op'.key, op'.arg) # {})
        /\ RowsAt(partial_candles', op'.key, op'.arg) = {}
        /\ OtherRowsUnchanged(partial_candles, partial_candles', op'.key, op'.arg)

C25_PartialUpsertGetDelete ==
    [][C25_UpsertStep /\ C25_GetStep /\ C25_DeleteStep]_vars

\* the second payload has replaced a partial row of K1 at start 0 while the row at the
\* next start and the row of K3 stayed
C25_Witness ==
    /\ op.name = "save_partial_candle" /\ op.key = K1 /\ op.result = TRUE
    /\ op.arg.start_time_ms = 0 /\ op.arg.open = 2000
    /\ CountAt(partial_candles, K1, 0) = 1
    /\ CountAt(partial_candles, K1, MsPerMinute) = 1
    /\ CountAt(partial_candles, K3, 0) = 1

(***************************************************************************)
(* C26: series keys are isolated: a store operation, a track_symbol call   *)
(* or a step of the scheduler's tick performed for one (symbol,            *)
(* timeframe_minutes, version) leaves the completed rows, the partial rows *)
(* and the tracked entry of every other key unchanged, in particular of a  *)
(* key that differs only in version.                                       *)
(***************************************************************************)
\* the rows a table holds for a key, with their multiplicities
KeyRows(table, k) == [r \in RowsOfKey(table, k) |-> CopiesIn(r, table)]

\* the tracked entries whose symbol, timeframe_minutes and version are those of k
TrackedOf(ts, k) == {ts[i] : i \in {j \in 1..Len(ts) : ConfigKey(ts[j]) = k}}

\* the key the step is performed for (NoKey: the step is performed for no key)
C26_StepKey ==
    IF op'.name \in {"save_candle", "delete_candles", "save_partial_candle",
                     "delete_partial_candle", "track_symbol"}
    THEN op'.key
    ELSE IF op'.name = "check_and_save"
              /\ sched.pc \in {"save", "delete", "advance", "partial"}
         THEN ConfigKey(tracked_symbols[sched.pos])
         ELSE NoKey

C26_SeriesKeysIsolated ==
    [][\A k \in IsolationKeys :
          k # C26_StepKey =>
              /\ KeyRows(candles', k) = KeyRows(candles, k)
              /\ KeyRows(partial_candles', k) = KeyRows(partial_candles, k)
              /\ TrackedOf(tracked_symbols', k) = TrackedOf(tracked_symbols, k)]_vars

\* a tick has just finalized a candle of K5 while K7, which differs only in version,
\* is tracked and has completed and partial rows, and K6 was refused its own entry
C26_Witness ==
    /\ op.name = "check_and_save" /\ op.calls = {"save_candle"}
    /\ sched.pc = "delete" /\ ConfigKey(tracked_symbols[sched.pos]) = K5
    /\ TrackedOf(tracked_symbols, K7) # {}
    /\ TrackedOf(tracked_symbols, K6) = {}
    /\ RowsOfKey(candles, K5) # {}
    /\ RowsOfKey(candles, K7) # {}
    /\ RowsOfKey(partial_candles, K7) # {}

(***************************************************************************)
(* C27 as claimed: for every value of the count parameter of an OHLC query *)
(* (absent, non-numeric, zero, negative or larger than the cap) and every  *)
(* store content, the candles array of the response has at most cap        *)
(* (5000) entries, and at most count entries when count is a non-negative  *)
(* integer; a non-numeric count behaves as the default (500).              *)
(***************************************************************************)
\* the response to the same query with count given as the default number
C27_DefaultResponse ==
    LET r == api_ohlc(tracked_symbols, op.key, DefaultCount, op.arg.include_partial,
                      op.arg.initial_price, op.arg.server_time_ms, candles,
                      partial_candles)
    IN  [candles |-> r.candles, partial |-> r.partial, fromDatabase |-> r.fromDatabase]

C27_CountBoundsCandles ==
    op.name = "api_ohlc_query" =>
        LET given == \E a \in op.arg.args : a[1] = "count"
            parsed == int_of(args_get(op.arg.args, "count", <<>>))
        IN  /\ Len(op.result.candles) <= CountCap
            /\ (given /\ parsed.ok /\ parsed.value >= 0) =>
                  Len(op.result.candles) <= parsed.value
            /\ (given /\ ~parsed.ok) => op.result = C27_DefaultResponse

(***************************************************************************)
(* C28: readers never mutate the durable candle store: an OHLC query, with *)
(* or without includePartial, on an empty or a populated store, and the    *)
(* reads get_candles, get_latest_candle and get_partial_candle leave every *)
(* row of candles and partial_candles unchanged.                           *)
(***************************************************************************)
C28_ReaderNames ==
    {"api_ohlc_query", "get_candles", "get_latest_candle", "get_partial_candle"}

C28_ReadersLeaveStoreUnchanged ==
    [][op'.name \in C28_ReaderNames =>
          /\ candles' = candles
          /\ partial_candles' = partial_candles]_vars

\* a query with includePartial has answered from a populated store with a forming
\* candle it generated, the partial table still empty
C28_Witness ==
    /\ op.name = "api_ohlc_query" /\ op.arg.include_partial
    /\ op.result.fromDatabase /\ op.result.partial # NonePartial
    /\ candles # EmptyBag /\ partial_candles = EmptyBag

(***************************************************************************)
(* C29: get_otc_chart maps the timeframe string to interval_seconds as:    *)
(* suffix s -> max(n, 5), suffix m -> max(n*60, 5), suffix h ->            *)
(* max(n*3600, 60), where n is the integer before the suffix; when that    *)
(* numeric part cannot be parsed, interval_seconds is 60 for the suffixes  *)
(* s and m and 3600 for the suffix h.                                      *)
(***************************************************************************)
\* the suffix of the call's timeframe, lower-cased, after the default "1m" for none
C29_Timeframe == lower(IF op.arg.timeframe # <<>> THEN op.arg.timeframe ELSE <<"1", "m">>)
C29_Suffix == C29_Timeframe[Len(C29_Timeframe)]
C29_Number == int_of(but_last(C29_Timeframe))
C29_Answered == op.name = "get_otc_chart" /\ op.result.raised = ""

C29_ParsedIntervals ==
    (C29_Answered /\ C29_Number.ok) =>
        /\ C29_Suffix = "s" => op.result.interval_seconds = Max(C29_Number.value, 5)
        /\ C29_Suffix = "m" => op.result.interval_seconds = Max(C29_Number.value * 60, 5)
        /\ C29_Suffix = "h" => op.result.interval_seconds = Max(C29_Number.value * 3600, 60)

C29_IntervalSeconds ==
    /\ C29_ParsedIntervals
    /\ (C29_Answered /\ ~C29_Number.ok) =>
          /\ C29_Suffix \in {"s", "m"} => op.result.interval_seconds = 60
          /\ C29_Suffix = "h" => op.result.interval_seconds = 3600

\* an hour timeframe whose numeric part int() rejects was answered
C29_Witness ==
    /\ C29_Answered /\ op.arg.timeframe = <<"x", "H">>
    /\ op.result.interval_seconds = 3600

\* C29 as claimed: an unparsable numeric part gives 60 for each of the three suffixes
C29_UnparsableIsAlways60 ==
    /\ C29_ParsedIntervals
    /\ (C29_Answered /\ ~C29_Number.ok /\ C29_Suffix \in {"s", "m", "h"}) =>
          op.result.interval_seconds = 60

(***************************************************************************)
(* C30 as claimed: open_trade raises ValueError when the asset is unknown, *)
(* the direction is invalid, the amount is not positive or the amount      *)
(* exceeds the user's balance, and then the user's balance, active_trades  *)
(* and transactions are unchanged; when it succeeds the balance decreases  *)
(* by exactly the amount, the trade is added to active_trades and one      *)
(* trade_open transaction is logged.                                       *)
(***************************************************************************)
C30_ErrorCase ==
    \/ op'.arg.asset_id \notin {"OTC-AAPL"}
    \/ op'.arg.direction \notin {"buy", "BUY", "sell", "SELL", "call", "CALL", "put", "PUT"}
    \/ ~(~op'.arg.amount.nan /\ op'.arg.amount.mills > 0)
    \/ float_gt(op'.arg.amount, user.balance)

C30_Opened ==
    /\ user'.balance = float_sub(user.balance, op'.arg.amount)
    /\ user'.active_trades = <<op'.result.trade>> \o user.active_trades
    /\ user'.transactions # <<>>
    /\ user'.transactions[1].type = "trade_open"
    /\ user'.transactions[1].trade_id = op'.result.trade.id
    /\ Tail(user'.transactions)
          = SubSeq(user.transactions, 1, Len(user'.transactions) - 1)

C30_OpenTradeContract ==
    [][op'.name = "open_trade" =>
          /\ C30_ErrorCase => (op'.result.raised = "ValueError" /\ user' = user)
          /\ op'.result.raised = "" => C30_Opened]_vars

(***************************************************************************)
(* C31 as claimed: after resolve_active_trades(user) returns, no trade     *)
(* with expires_at <= now remains in active_trades, every trade that was   *)
(* active and not yet expired is still active, each trade removed has      *)
(* exactly one new history entry (win or loss) and one trade_win or        *)
(* trade_loss transaction carrying its id, and the number of returned      *)
(* results equals the number of trades removed.                            *)
(***************************************************************************)
IdsOf(trades) == {trades[i].id : i \in 1..Len(trades)}
HistoryEntriesOf(u, id) == {i \in 1..Len(u.history) : u.history[i].id = id}
SettlementsOf(u, id) ==
    {i \in 1..Len(u.transactions) :
        /\ u.transactions[i].trade_id = id
        /\ u.transactions[i].type \in {"trade_win", "trade_loss"}}
C31_Removed == IdsOf(user.active_trades) \ IdsOf(user'.active_trades)

C31_ActiveTradesSplit ==
    /\ \A i \in 1..Len(user'.active_trades) :
          user'.active_trades[i].expires_at > op'.arg.current_time
    /\ \A i \in 1..Len(user.active_trades) :
          user.active_trades[i].expires_at > op'.arg.current_time =>
              \E j \in 1..Len(user'.active_trades) :
                  user'.active_trades[j] = user.active_trades[i]
    /\ Len(op'.result.resolved) = Cardinality(C31_Removed)

C31_RemovedTradesRecorded ==
    \A id \in C31_Removed :
        /\ HistoryEntriesOf(user, id) = {}
        /\ Cardinality(HistoryEntriesOf(user', id)) = 1
        /\ \A i \in HistoryEntriesOf(user', id) :
              user'.history[i].result \in {"win", "loss"}
        /\ Cardinality(SettlementsOf(user', id)) = 1

C31_ResolveSettlesExpiredTrades ==
    [][op'.name = "resolve_active_trades" =>
          C31_ActiveTradesSplit /\ C31_RemovedTradesRecorded]_vars

(***************************************************************************)
(* C32: for every trade resolved by resolve_active_trades, a win has net   *)
(* round(amount * payout_percent / 100, 2) and raises the balance by       *)
(* amount + that profit, a loss has net -amount and leaves the balance     *)
(* unchanged; the history entry, the transaction and the returned result   *)
(* of one trade carry the same net.                                        *)
(***************************************************************************)
C32_TradeOf(id) ==
    CHOOSE trade \in {user.active_trades[i] : i \in 1..Len(user.active_trades)} :
        trade.id = id

C32_Profit(trade) ==
    IF trade.amount.nan THEN NaN
    ELSE Num(RoundHalfEven(trade.amount.mills * trade.payout_percent, 1000) * 10)

\* the balance after the trades of results[i..] are paid in turn
RECURSIVE C32_Paid(_, _, _)
C32_Paid(balance, results, i) ==
    IF i > Len(results) THEN balance
    ELSE LET trade == C32_TradeOf(results[i].id)
         IN  C32_Paid(IF results[i].result = "win"
                      THEN float_add(balance, float_add(trade.amount, C32_Profit(trade)))
                      ELSE balance,
                      results, i + 1)

C32_Nets ==
    \A i \in 1..Len(op'.result.resolved) :
        LET r == op'.result.resolved[i]
            trade == C32_TradeOf(r.id)
        IN  /\ r.result \in {"win", "loss"}
            /\ r.result = "win" => r.net = C32_Profit(trade)
            /\ r.result = "loss" => r.net = float_neg(trade.amount)
            /\ \A h \in HistoryEntriesOf(user', r.id) : user'.history[h].net = r.net
            /\ \A x \in SettlementsOf(user', r.id) : user'.transactions[x].net = r.net

C32_ResolveArithmetic ==
    [][op'.name = "resolve_active_trades" =>
          /\ C32_Nets
          /\ user'.balance = C32_Paid(user.balance, op'.result.resolved, 1)]_vars

\* a call resolved a winning and a losing trade of 33.33, both recorded
C32_Witness ==
    /\ op.name = "resolve_active_trades"
    /\ \E i, j \in 1..Len(op.result.resolved) :
          /\ op.result.resolved[i].result = "win"
          /\ op.result.resolved[i].net = Num(27000)
          /\ HistoryEntriesOf(user, op.result.resolved[i].id) # {}
          /\ op.result.resolved[j].result = "loss"
          /\ op.result.resolved[j].net = Num(0 - 33330)
          /\ SettlementsOf(user, op.result.resolved[j].id) # {}
    /\ ~user.balance.nan

(***************************************************************************)
(* C33 as claimed: each trade is resolved at most once.  When the          *)
(* TradeResolver thread and a request handler call resolve_active_trades   *)
(* on the same user record concurrently, in every interleaving an expired  *)
(* trade gets at most one history entry, at most one win/loss transaction  *)
(* and at most one payout to the balance (a stake of 10.00 at 81 percent   *)
(* pays 18.10, so the balance never exceeds 100.00 plus 8.10 per trade).   *)
(***************************************************************************)
C33_EachTradeResolvedAtMostOnce ==
    /\ \A id \in 1..trade_seq :
          /\ Cardinality(HistoryEntriesOf(user, id)) <= 1
          /\ Cardinality(SettlementsOf(user, id)) <= 1
    /\ user.balance.mills <= NewUser.balance.mills + 8100 * trade_seq

(***************************************************************************)
(* C34 as claimed: no opened trade is lost.  When open_trade runs          *)
(* concurrently with resolve_active_trades on the same user record, then   *)
(* in every interleaving, once the calls have returned, every trade whose  *)
(* stake was deducted is in active_trades or in history.                   *)
(***************************************************************************)
C34_NoOpenedTradeIsLost ==
    (\A t \in ResolverThreads : resolvers[t].pc = "idle") =>
        \A id \in 1..trade_seq :
            \/ id \in IdsOf(user.active_trades)
            \/ HistoryEntriesOf(user, id) # {}

(***************************************************************************)
(* C35 as claimed: the completed candles the scheduler persists for a key  *)
(* form a continuous chain.  In every reachable state, also after ticks    *)
(* that failed partway and were retried and after save_candle returned     *)
(* False, whenever the store holds completed rows of one key for two       *)
(* consecutive bucket indices, the open of the later row equals the close  *)
(* of the earlier one.                                                     *)
(***************************************************************************)
C35_CompletedCandlesChain ==
    \A r1, r2 \in BagToSet(candles) :
        (/\ KeyOf(r1) = KeyOf(r2)
         /\ r2.start_time_ms = r1.start_time_ms + r1.timeframe_minutes * MsPerMinute)
            => r2.open = r1.close

(***************************************************************************)
(* C36: finalization leaves no gap.  In every reachable state and for      *)
(* every tracked key, each bucket index from the one in which the key was  *)
(* tracked up to, but not including, last_saved_index has a completed      *)
(* candle row in the store, also when missed ticks made one tick finalize  *)
(* several indices and when ticks failed.                                  *)
(***************************************************************************)
C36_FinalizationLeavesNoGap ==
    \A p \in 1..Len(tracked_symbols) :
        \A i \in tracked0[p]..(tracked_symbols[p].last_saved_index - 1) :
            CountAt(candles, ConfigKey(tracked_symbols[p]),
                    get_candle_start_time(i, tracked_symbols[p].timeframe_minutes)) >= 1

\* a key tracked in bucket 0 has last_saved_index 2 after a tick failed on the way
C36_Witness ==
    /\ Len(tracked_symbols) = 1
    /\ tracked0[1] = 0
    /\ tracked_symbols[1].last_saved_index = 2
    /\ faults > 0
    /\ CountRows(candles, RowsOfKey(candles, K1)) = 2

(***************************************************************************)
(* C37: within a tick the partial row of a bucket is deleted only after    *)
(* the completed candle for that bucket exists in the store.  No step of   *)
(* any execution removes the partial row at a (key, start time) while the  *)
(* candles table has no row for that (key, start time).                    *)
(***************************************************************************)
C37_PartialDeletedAfterCompletedSaved ==
    [][partial_candles' # partial_candles =>
          \A r \in BagToSet(partial_candles) :
              CountAt(partial_candles', KeyOf(r), r.start_time_ms) = 0 =>
                  CountAt(candles, KeyOf(r), r.start_time_ms) >= 1]_vars

\* the tick has just deleted the partial row of bucket 0, which an earlier tick
\* had stored, and the completed row of bucket 0 is in the store
C37_Witness ==
    /\ sched.pc = "advance"
    /\ op.calls = {"delete_partial_candle"}
    /\ last_partial[K1].candle.start_time_ms = 0
    /\ CountAt(partial_candles, K1, 0) = 0
    /\ CountAt(candles, K1, 0) = 1

(***************************************************************************)
(* C38 as claimed: in every OHLC query response whose partial is not null, *)
(* also when the scheduler ticks (a rollover included) between the         *)
(* handler's reads of the store, the partial's start_time_ms is the start  *)
(* of the current bucket of serverTimeMs and greater than the last         *)
(* returned candle's start_time_ms, and the partial's open equals the      *)
(* close of the last returned completed candle.                            *)
(***************************************************************************)
C38_PartialFollowsLastCandle ==
    (op.name = "api_ohlc" /\ op.calls = {} /\ op.result.partial # NonePartial) =>
        LET partial == op.result.partial
            last == op.result.candles[Len(op.result.candles)]
            tf == op.key.timeframe_minutes
        IN  /\ partial.start_time_ms
                  = get_candle_start_time(get_candle_index(op.arg.server_time_ms, tf), tf)
            /\ partial.start_time_ms > last.start_time_ms
            /\ partial.open = last.close

(***************************************************************************)
(* C39 as claimed: store round-trip.  A candle written with save_candle    *)
(* (returning True) is returned by get_latest_candle (when no later candle *)
(* of the key is stored) and by get_candles with the same start_time_ms,   *)
(* open, high, low, close and volume; a partial written with               *)
(* save_partial_candle is returned by get_partial_candle (when no later    *)
(* partial of the key is stored) with the same fields and still marked as  *)
(* partial.                                                                *)
(***************************************************************************)
C39_SameFields(returned, written) ==
    /\ returned.start_time_ms = written.start_time_ms
    /\ returned.open = written.open /\ returned.high = written.high
    /\ returned.low = written.low /\ returned.close = written.close
    /\ "volume" \in DOMAIN returned
    /\ returned.volume = written.volume

C39_IsLatest(table, k, start_time_ms) ==
    \A r \in RowsOfKey(table, k) : r.start_time_ms <= start_time_ms

C39_StoreRoundTrip ==
    /\ (op.name = "save_candle" /\ op.result = TRUE) =>
          LET all == get_candles(candles, op.key,
                                 Cardinality(RowsOfKey(candles, op.key)), NoneTime)
          IN  /\ \E i \in 1..Len(all) : C39_SameFields(all[i], op.arg)
              /\ C39_IsLatest(candles, op.key, op.arg.start_time_ms) =>
                    C39_SameFields(get_latest_candle(candles, op.key), op.arg)
    /\ (op.name = "save_partial_candle" /\ op.result = TRUE
            /\ C39_IsLatest(partial_candles, op.key, op.arg.start_time_ms)) =>
          LET returned == get_partial_candle(partial_candles, op.key)
          IN  /\ C39_SameFields(returned, op.arg)
              /\ "isPartial" \in DOMAIN returned
              /\ returned.isPartial = TRUE

(***************************************************************************)
(* C40: liveness of finalization.  If the scheduler loop keeps running and *)
(* store writes eventually succeed, then for every tracked key every       *)
(* bucket that ends after the key was tracked eventually has a completed   *)
(* candle row in the store, and the partial row at that bucket's start     *)
(* time is eventually absent.                                              *)
(***************************************************************************)
C40_Ended(i) ==
    /\ IsTracked(tracked_symbols, K1)
    /\ tracked0[TrackedPos(tracked_symbols, K1)] <= i
    /\ get_candle_index(now, K1.timeframe_minutes) > i
C40_Row(i) ==
    CountAt(candles, K1, get_candle_start_time(i, K1.timeframe_minutes)) >= 1
C40_NoPartial(i) ==
    CountAt(partial_candles, K1, get_candle_start_time(i, K1.timeframe_minutes)) = 0

C40_EndedBucketsAreFinalized ==
    \A i \in 0..(MaxBuckets - 1) :
        C40_Ended(i) ~> (C40_Row(i) /\ C40_NoPartial(i))

\* both buckets that ended since the key was tracked are finalized, after a failure
C40_Witness ==
    /\ C40_Ended(0) /\ C40_Ended(1)
    /\ C40_Row(0) /\ C40_Row(1)
    /\ C40_NoPartial(0) /\ C40_NoPartial(1)
    /\ last_partial[K1].candle.start_time_ms = get_candle_start_time(2, 1)
    /\ faults > 0
====
